---------------------------- MODULE Spec2Model ----------------------------
(***************************************************************************)
(* CheerChaser: course indexing, trail projection and cheer-spot           *)
(* suggestion (App, MapComponent, PlannerSidebar, utils).                  *)
(*                                                                         *)
(* Numbers.  The program computes with IEEE doubles on latitude/longitude  *)
(* degrees and great-circle metres.  The model computes with exact         *)
(* integers on a planar grid whose unit is one metre: a LatLng is a record *)
(* [lat, lng] of integers, distanceTo is the Euclidean distance, and the   *)
(* courses fed to the model are rectilinear (consecutive points differ in  *)
(* one coordinate), so every segment length, cumulative distance,          *)
(* interpolated candidate and clamped projection is an exact integer.      *)
(* Distances between arbitrary points only ever enter comparisons, which   *)
(* are done exactly on squares.  Sequences are 1-based here and 0-based in *)
(* the source.                                                             *)
(***************************************************************************)
EXTENDS Integers, Sequences, FiniteSets, TLC

----------------------------------------------------------------------------
(* Program constants *)

AVG_WALKING_SPEED_NUM == 7
AVG_WALKING_SPEED_DEN == 5
AVG_CYCLING_SPEED_NUM == 11
AVG_CYCLING_SPEED_DEN == 2
SPECTATOR_BUFFER_SECONDS == 600
COURSE_CROSSING_PENALTY_SECONDS == 300
POTENTIAL_SPOT_INTERVAL == 50
CROSSING_TOLERANCE_METERS == 10
TRAIL_INFO_THRESHOLD_METERS == 40
METERS_PER_KM == 1000
Infinity == -1

----------------------------------------------------------------------------
(* Generic helpers *)

Abs(n) == IF n < 0 THEN -n ELSE n

Min(a, b) == IF a < b THEN a ELSE b

Max(a, b) == IF a > b THEN a ELSE b

Range(s) == {s[i] : i \in DOMAIN s}

\* Array.prototype.sort((a, b) => a - b) on a set of distinct numbers
RECURSIVE SortAscending(_)
SortAscending(S) ==
  IF S = {} THEN <<>>
  ELSE LET m == CHOOSE x \in S : \A y \in S : x <= y
       IN  <<m>> \o SortAscending(S \ {m})

\* Map.set(key, value) on a map held as a function over its keys
MapSet(m, key, value) ==
  [k \in (DOMAIN m) \cup {key} |-> IF k = key THEN value ELSE m[k]]

EmptyMap == [k \in {} |-> 0]

----------------------------------------------------------------------------
(* Exact real comparisons inside TLC's 32-bit integers *)

RECURSIVE SqrtSearch(_, _, _)
SqrtSearch(n, lo, hi) ==
  IF lo >= hi THEN lo
  ELSE LET mid == (lo + hi + 1) \div 2
       IN  IF mid * mid <= n THEN SqrtSearch(n, mid, hi)
           ELSE SqrtSearch(n, lo, mid - 1)

\* floor(sqrt(n))
ISqrt(n) == SqrtSearch(n, 0, Min(n, 46340))

RECURSIVE Gcd(_, _)
Gcd(a, b) == IF b = 0 THEN a ELSE Gcd(b, a % b)

\* The sign (-1, 0, 1) of x/y - sqrt(q), for y > 0 and q >= 0, computed
\* without forming x*x or y*y*q
SqrtCompare(x, y, q) ==
  LET s == ISqrt(q)
      e == q - s * s
      whole == x \div y
      r == x % y
  IN  IF x < 0 THEN -1
      ELSE IF whole > s THEN 1
      ELSE IF whole < s THEN -1
      ELSE IF r = 0 THEN (IF e = 0 THEN 0 ELSE -1)
      ELSE LET whole2 == (e * y) \div r
               r2 == (e * y) % r
           IN  IF 2 * s > whole2 THEN 1
               ELSE IF 2 * s < whole2 THEN -1
               ELSE IF r * r > r2 * y THEN 1
               ELSE IF r * r < r2 * y THEN -1
               ELSE 0

----------------------------------------------------------------------------
(* GeoPoint primitives *)

LatLng(lat, lng) == [lat |-> lat, lng |-> lng]

DistSq(p, q) ==
  (p.lat - q.lat) * (p.lat - q.lat) + (p.lng - q.lng) * (p.lng - q.lng)

\* L.LatLng.distanceTo, in whole metres (exact on rectilinear pairs)
DistanceTo(p, q) == ISqrt(DistSq(p, q))

----------------------------------------------------------------------------
(* utils.ts: parsePaceToSecondsPerMeter.  A string is a sequence of        *)
(* one-character strings.                                                  *)

Digits == {"0", "1", "2", "3", "4", "5", "6", "7", "8", "9"}

DigitValue(c) ==
  CASE c = "0" -> 0 [] c = "1" -> 1 [] c = "2" -> 2 [] c = "3" -> 3
    [] c = "4" -> 4 [] c = "5" -> 5 [] c = "6" -> 6 [] c = "7" -> 7
    [] c = "8" -> 8 [] c = "9" -> 9

\* String.prototype.split(':')
Split(str) ==
  LET F[i \in 0..Len(str)] ==
        IF i = 0 THEN << <<>> >>
        ELSE IF str[i] = ":" THEN Append(F[i - 1], <<>>)
        ELSE [F[i - 1] EXCEPT ![Len(F[i - 1])] = Append(@, str[i])]
  IN  F[Len(str)]

\* parseInt(str, 10): leading blanks, an optional sign, then the longest
\* run of digits; NaN when that run is empty
ParseInt(str) ==
  LET SkipBlanks[i \in 1..(Len(str) + 1)] ==
        IF i <= Len(str) /\ str[i] = " " THEN SkipBlanks[i + 1] ELSE i
      start == SkipBlanks[1]
      signed == start <= Len(str) /\ str[start] \in {"+", "-"}
      negative == signed /\ str[start] = "-"
      first == IF signed THEN start + 1 ELSE start
      DigitsEnd[i \in 1..(Len(str) + 1)] ==
        IF i <= Len(str) /\ str[i] \in Digits THEN DigitsEnd[i + 1] ELSE i
      stop == DigitsEnd[first]
      Value[i \in (first - 1)..Len(str)] ==
        IF i < first THEN 0 ELSE Value[i - 1] * 10 + DigitValue(str[i])
  IN  IF stop = first THEN [isNaN |-> TRUE, value |-> 0]
      ELSE [isNaN |-> FALSE,
            value |-> IF negative THEN -Value[stop - 1] ELSE Value[stop - 1]]

PaceNull == [isNull |-> TRUE, secondsPerKm |-> 0]

\* Faulty variant: the parser without its three rejections (a NaN total compares false
\* everywhere, as a zero pace does)
parsePaceUnchecked(pace) ==
  LET parts == Split(pace)
      minutes == IF Len(parts) >= 1 THEN ParseInt(parts[1]).value ELSE 0
      seconds == IF Len(parts) >= 2 THEN ParseInt(parts[2]).value ELSE 0
  IN  [isNull |-> FALSE, secondsPerKm |-> Max(0, minutes * 60 + seconds)]

\* The result is secondsPerKm / 1000 seconds per metre; the model keeps the
\* numerator and divides where the value is used.
parsePaceToSecondsPerMeter(pace) ==
  LET parts == Split(pace)
  IN  IF Len(parts) # 2 THEN PaceNull
      ELSE LET minutes == ParseInt(parts[1])
               seconds == ParseInt(parts[2])
               totalSecondsPerKm == minutes.value * 60 + seconds.value
           IN  IF minutes.isNaN \/ seconds.isNaN THEN PaceNull
               ELSE IF totalSecondsPerKm <= 0 THEN PaceNull
               ELSE [isNull |-> FALSE, secondsPerKm |-> totalSecondsPerKm]

----------------------------------------------------------------------------
(* utils.ts and the two places that build the time text of a selected spot *)

DigitChar(n) ==
  CASE n = 0 -> "0" [] n = 1 -> "1" [] n = 2 -> "2" [] n = 3 -> "3"
    [] n = 4 -> "4" [] n = 5 -> "5" [] n = 6 -> "6" [] n = 7 -> "7"
    [] n = 8 -> "8" [] n = 9 -> "9"

\* String(n) of a non-negative integer
RECURSIVE NumberText(_)
NumberText(n) ==
  IF n < 10 THEN <<DigitChar(n)>>
  ELSE Append(NumberText(n \div 10), DigitChar(n % 10))

\* String.prototype.padStart(2, '0') of a non-empty text
PadStart2(text) == IF Len(text) < 2 THEN <<"0">> \o text ELSE text

\* /^\d{2}:\d{2}$/.test(text): two digits, a colon, two digits
MatchesClock(text) ==
  /\ Len(text) = 5
  /\ text[1] \in Digits /\ text[2] \in Digits
  /\ text[3] = ":"
  /\ text[4] \in Digits /\ text[5] \in Digits

\* /^\\d{2}:\\d{2}$/.test(text): in a regular expression literal \\ is a
\* backslash character and d{2} is the letter d twice, so the only text that
\* matches is  \dd:\dd
MatchesEscapedClock(text) == text = <<"\\", "d", "d", ":", "\\", "d", "d">>

\* calculateRealTimeETA(startTimeString, secondsToAdd) with secondsToAdd =
\* millis / 1000: the clock time secondsToAdd after the start, as HH:MM.
\* Date.setSeconds drops the fraction of its argument and carries into the
\* minutes, hours and days.
calculateRealTimeETA(startTimeString, millis) ==
  IF startTimeString = <<>> \/ ~MatchesClock(startTimeString) \/ millis < 0
  THEN <<"-", "-", ":", "-", "-">>
  ELSE LET parts == Split(startTimeString)
           startHours == ParseInt(parts[1]).value
           startMinutes == ParseInt(parts[2]).value
           seconds == startHours * 3600 + startMinutes * 60 + millis \div 1000
           etaHours == (seconds \div 3600) % 24
           etaMinutes == (seconds \div 60) % 60
       IN  PadStart2(NumberText(etaHours)) \o <<":">>
             \o PadStart2(NumberText(etaMinutes))

\* formatSecondsToHoursMinutes(totalSeconds) with totalSeconds = millis / 1000
formatSecondsToHoursMinutes(millis) ==
  IF millis < 0 THEN <<"-", ":", "-", "-">>
  ELSE IF millis = 0 THEN <<"0", "m">>
  ELSE LET hours == millis \div 3600000
           minutes == (millis % 3600000) \div 60000
       IN  IF hours > 0
           THEN NumberText(hours) \o <<"h">>
                  \o (IF minutes > 0
                      THEN <<" ">> \o NumberText(minutes) \o <<"m">>
                      ELSE <<>>)
           ELSE IF minutes > 0 THEN NumberText(minutes) \o <<"m">>
           ELSE <<"<", " ", "1", "m">>

EtaPrefix == <<"E", "T", "A", ":", " ">>
DurationPrefix == <<"D", "u", "r", "a", "t", "i", "o", "n", ":", " ">>

\* PlannerSidebar: etaString of the list entry of a selected spot
SidebarEtaString(pace, startTime, distance) ==
  LET secondsPerMeter == parsePaceToSecondsPerMeter(pace)
      runnerETAMillis == distance * secondsPerMeter.secondsPerKm
  IN  IF ~secondsPerMeter.isNull
      THEN IF startTime # <<>> /\ MatchesEscapedClock(startTime)
           THEN EtaPrefix \o calculateRealTimeETA(startTime, runnerETAMillis)
           ELSE DurationPrefix \o formatSecondsToHoursMinutes(runnerETAMillis)
      ELSE <<"(", "S", "e", "t", " ", "p", "a", "c", "e", " ", "f", "o", "r",
             " ", "E", "T", "A", ")">>

\* MapComponent: etaString of the tooltip of a selected marker; the finish
\* marker builds finishEtaString in the same way from totalTrackDistance
MarkerEtaString(pace, startTime, distance) ==
  LET secondsPerMeter == parsePaceToSecondsPerMeter(pace)
      timeInMillis == distance * secondsPerMeter.secondsPerKm
  IN  IF ~secondsPerMeter.isNull
      THEN IF startTime # <<>> /\ MatchesClock(startTime)
           THEN EtaPrefix \o calculateRealTimeETA(startTime, timeInMillis)
           ELSE DurationPrefix \o formatSecondsToHoursMinutes(timeInMillis)
      ELSE <<"(", "S", "e", "t", " ", "p", "a", "c", "e", ")">>

----------------------------------------------------------------------------

(* MapComponent: the course indexer of the marker effect *)

\* cumulativeDistances: [0], then one running total per further point
RECURSIVE CumulativeFrom(_, _, _, _)
CumulativeFrom(points, i, totalDist, acc) ==
  IF i > Len(points) THEN acc
  ELSE LET t == totalDist + DistanceTo(points[i - 1], points[i])
       IN  CumulativeFrom(points, i + 1, t, Append(acc, t))

\* Faulty variant: pushes each segment's own length instead of the running total
CumulativeDistancesPerSegment(points) ==
  [i \in 1..Len(points) |->
     IF i = 1 THEN 0 ELSE DistanceTo(points[i - 1], points[i])]

CumulativeDistances(points) == CumulativeFrom(points, 2, 0, <<0>>)

\* prev + (cur - prev) * (distanceToSpot / segmentDistance)
Interpolate(prevPoint, currentPoint, distanceToSpot, segmentDistance) ==
  LatLng(prevPoint.lat
           + ((currentPoint.lat - prevPoint.lat) * distanceToSpot) \div segmentDistance,
         prevPoint.lng
           + ((currentPoint.lng - prevPoint.lng) * distanceToSpot) \div segmentDistance)

\* while (totalDistance + segmentDistance >= nextPotentialSpotDist) { ... }
RECURSIVE SpotsInSegment(_, _, _, _, _, _)
SpotsInSegment(prevPoint, currentPoint, segmentDistance, totalDistance, nextDist, m) ==
  IF totalDistance + segmentDistance >= nextDist
  THEN SpotsInSegment(prevPoint, currentPoint, segmentDistance, totalDistance,
                      nextDist + POTENTIAL_SPOT_INTERVAL,
                      MapSet(m, nextDist,
                             Interpolate(prevPoint, currentPoint,
                                         nextDist - totalDistance, segmentDistance)))
  ELSE [nextDist |-> nextDist, positions |-> m]

\* for (let i = 1; i < points.length; i++) { ... } and the finish entry
RECURSIVE SpotsFrom(_, _, _, _, _)
SpotsFrom(points, i, totalDistance, nextDist, m) ==
  IF i > Len(points)
  THEN MapSet(m, totalDistance, points[Len(points)])
  ELSE LET segmentDistance == DistanceTo(points[i - 1], points[i])
           r == SpotsInSegment(points[i - 1], points[i], segmentDistance,
                               totalDistance, nextDist, m)
       IN  SpotsFrom(points, i + 1, totalDistance + segmentDistance,
                     r.nextDist, r.positions)

\* Faulty variant: the finish entry is never added
PotentialSpotsNoFinish(points) ==
  LET m == SpotsFrom(points, 2, 0, POTENTIAL_SPOT_INTERVAL, EmptyMap)
  IN  [k \in {d \in DOMAIN m : d > 0 /\ d % POTENTIAL_SPOT_INTERVAL = 0} |-> m[k]]

\* Faulty variant: the finish entry holds the first point of the course
PotentialSpotsFinishAtStart(points) ==
  LET m == SpotsFrom(points, 2, 0, POTENTIAL_SPOT_INTERVAL, EmptyMap)
      finish == CHOOSE k \in DOMAIN m : \A j \in DOMAIN m : j <= k
  IN  MapSet(m, finish, points[1])

\* newMarkerPositions of a course with more than one point
PotentialSpots(points) ==
  SpotsFrom(points, 2, 0, POTENTIAL_SPOT_INTERVAL, EmptyMap)

\* The placements of the while loop in the segment that ends at point i: the
\* key of each candidate, distanceToSpot and segmentDistance, whose quotient
\* is the interpolation ratio
RECURSIVE SpotRatiosInSegment(_, _, _, _, _)
SpotRatiosInSegment(i, segmentDistance, totalDistance, nextDist, placed) ==
  IF totalDistance + segmentDistance >= nextDist
  THEN SpotRatiosInSegment(i, segmentDistance, totalDistance,
                           nextDist + POTENTIAL_SPOT_INTERVAL,
                           placed \cup {[key |-> nextDist, segment |-> i - 1,
                                         distanceToSpot |-> nextDist - totalDistance,
                                         segmentDistance |-> segmentDistance]})
  ELSE [nextDist |-> nextDist, placed |-> placed]

RECURSIVE SpotRatiosFrom(_, _, _, _, _)
SpotRatiosFrom(points, i, totalDistance, nextDist, placed) ==
  IF i > Len(points)
  THEN placed
  ELSE LET segmentDistance == DistanceTo(points[i - 1], points[i])
           r == SpotRatiosInSegment(i, segmentDistance, totalDistance, nextDist,
                                    placed)
       IN  SpotRatiosFrom(points, i + 1, totalDistance + segmentDistance,
                          r.nextDist, r.placed)

\* Faulty variant: the first threshold is 0, not the interval
SpotRatiosFromZero(points) == SpotRatiosFrom(points, 2, 0, 0, {})

\* Every division made while the candidates of a course are placed
SpotRatios(points) ==
  SpotRatiosFrom(points, 2, 0, POTENTIAL_SPOT_INTERVAL, {})

----------------------------------------------------------------------------
(* MapComponent: the trail projector *)

\* a < b on distances where Infinity stands above every number
LessThan(a, b) == a # Infinity /\ (b = Infinity \/ a < b)

\* One pass of the segment loop.  The ratio t is the fraction num/den; the
\* distance to the projected point is kept squared.
RECURSIVE NearestFrom(_, _, _, _)
NearestFrom(latlng, trailPoints, i, best) ==
  IF i > Len(trailPoints) - 1 THEN best
  ELSE
    LET p1 == trailPoints[i]
        p2 == trailPoints[i + 1]
        segmentLength == DistanceTo(p1, p2)
        vx == p2.lng - p1.lng
        vy == p2.lat - p1.lat
        wx == latlng.lng - p1.lng
        wy == latlng.lat - p1.lat
        dot_wv == wx * vx + wy * vy
        dot_vv == vx * vx + vy * vy
        den == IF dot_vv < 1 THEN 1 ELSE dot_vv
        t == IF dot_vv < 1 THEN 0 ELSE dot_wv
        num == Max(0, Min(den, t))
        pointOnSegment == LatLng(p1.lat + (num * vy) \div den,
                                 p1.lng + (num * vx) \div den)
        distance == DistSq(latlng, pointOnSegment)
    IN  IF segmentLength = 0 THEN NearestFrom(latlng, trailPoints, i + 1, best)
        ELSE IF LessThan(distance, best.distanceSq)
        THEN NearestFrom(latlng, trailPoints, i + 1,
                         [distanceSq |-> distance, point |-> pointOnSegment,
                          segmentIndex |-> i, num |-> num, den |-> den])
        ELSE NearestFrom(latlng, trailPoints, i + 1, best)

\* Faulty variant: only the first segment of the trail is looked at
findNearestPointOnFirstSegment(latlng, trailPoints) ==
  NearestFrom(latlng, SubSeq(trailPoints, 1, 2), 1,
              [distanceSq |-> Infinity, point |-> trailPoints[1],
               segmentIndex |-> 1, num |-> 0, den |-> 1])

findNearestPointOnTrail(latlng, trailPoints) ==
  NearestFrom(latlng, trailPoints, 1,
              [distanceSq |-> Infinity, point |-> trailPoints[1],
               segmentIndex |-> 1, num |-> 0, den |-> 1])

\* Faulty variant: the distance to the segment's start, without the part along it
calculateDistanceToSegmentStart(segmentIndex, num, den, trailPoints, cumulativeDistances) ==
  cumulativeDistances[segmentIndex]

\* baseDistance + ratio * segmentLength
calculateDistanceAlongTrail(segmentIndex, num, den, trailPoints, cumulativeDistances) ==
  LET baseDistance == cumulativeDistances[segmentIndex]
      segmentLength == DistanceTo(trailPoints[segmentIndex],
                                  trailPoints[segmentIndex + 1])
  IN  baseDistance + (num * segmentLength) \div den

----------------------------------------------------------------------------
(* App: the crossing test of handleSuggestSpots *)

\* GeoJSON position [lon, lat] of a LatLng
Coord(p) == <<p.lng, p.lat>>

\* turf's segment test: line 1 is one course segment (c1, c2), line 2 the
\* spectator path (c3, c4).  Parallel segments give no point.  A point is
\* kept as its position uB = numeB / denom along the spectator path.
Intersects(c1, c2, c3, c4) ==
  LET x1 == c1[1]  y1 == c1[2]
      x2 == c2[1]  y2 == c2[2]
      x3 == c3[1]  y3 == c3[2]
      x4 == c4[1]  y4 == c4[2]
      denom == (y4 - y3) * (x2 - x1) - (x4 - x3) * (y2 - y1)
      numeA == (x4 - x3) * (y1 - y3) - (y4 - y3) * (x1 - x3)
      numeB == (x2 - x1) * (y1 - y3) - (y2 - y1) * (x1 - x3)
      sgn == IF denom < 0 THEN -1 ELSE 1
      d == sgn * denom
      a == sgn * numeA
      b == sgn * numeB
  IN  IF denom = 0 THEN [hit |-> FALSE, numeB |-> 0, denom |-> 1]
      ELSE IF a >= 0 /\ a <= d /\ b >= 0 /\ b <= d
      THEN [hit |-> TRUE, numeB |-> b, denom |-> d]
      ELSE [hit |-> FALSE, numeB |-> 0, denom |-> 1]

\* lineIntersect(gpxCourseLine, spectatorPathLine).features
lineIntersect(courseCoords, pathCoords) ==
  LET hits == {Intersects(courseCoords[k], courseCoords[k + 1],
                          pathCoords[1], pathCoords[2]) :
                 k \in 1..(Len(courseCoords) - 1)}
  IN  {h \in hits : h.hit}

\* part / whole of a path of squared length pathSq is longer than 10 m
FartherThanTolerance(part, whole, pathSq) ==
  /\ part > 0
  /\ SqrtCompare(CROSSING_TOLERANCE_METERS * whole, part, pathSq) = -1

\* Faulty variant: any intersection point counts, the ends of the path included
TrueIntersectionAnyPoint(courseCoords, lastSpotLatLng, potentialNextLatLng) ==
  lineIntersect(courseCoords,
                <<Coord(lastSpotLatLng), Coord(potentialNextLatLng)>>) # {}

\* trueIntersection: some intersection point lies more than 10 m from both
\* ends of the spectator path
TrueIntersection(courseCoords, lastSpotLatLng, potentialNextLatLng) ==
  LET pathSq == DistSq(lastSpotLatLng, potentialNextLatLng)
      intersections == lineIntersect(courseCoords,
                         <<Coord(lastSpotLatLng), Coord(potentialNextLatLng)>>)
  IN  \E f \in intersections :
        /\ FartherThanTolerance(f.numeB, f.denom, pathSq)
        /\ FartherThanTolerance(f.denom - f.numeB, f.denom, pathSq)

\* Faulty variant: a crossing costs nothing
CrossingPenaltyNone(courseCoords, lastSpotLatLng, potentialNextLatLng) == 0

CrossingPenalty(courseCoords, lastSpotLatLng, potentialNextLatLng) ==
  IF TrueIntersection(courseCoords, lastSpotLatLng, potentialNextLatLng)
  THEN COURSE_CROSSING_PENALTY_SECONDS ELSE 0

----------------------------------------------------------------------------
(* App: handleSuggestSpots *)

\* Faulty variant: the course distance between the spots taken without its sign
RunnerTimeMillisUnsigned(lastSpotDistance, potentialNextDistance, secondsPerKm) ==
  Abs(potentialNextDistance - lastSpotDistance) * secondsPerKm

\* runnerTimeSeconds * 1000:
\* courseDistanceBetweenSpots * (secondsPerKm / 1000), times 1000
RunnerTimeMillis(lastSpotDistance, potentialNextDistance, secondsPerKm) ==
  LET courseDistanceBetweenSpots == potentialNextDistance - lastSpotDistance
  IN  courseDistanceBetweenSpots * secondsPerKm

\* Faulty variant: transit is given the walking speed
IsFeasibleTransitAsWalking(lastSpotDistance, lastSpotLatLng, potentialNextDistance, potentialNextLatLng, secondsPerKm, profile, courseCoords) ==
  LET runnerTimeMillis == RunnerTimeMillis(lastSpotDistance, potentialNextDistance,
                                           secondsPerKm)
      crossingPenalty == CrossingPenalty(courseCoords, lastSpotLatLng,
                                         potentialNextLatLng)
      speedNum == IF profile = "cycling" THEN AVG_CYCLING_SPEED_NUM
                  ELSE AVG_WALKING_SPEED_NUM
      speedDen == IF profile = "cycling" THEN AVG_CYCLING_SPEED_DEN
                  ELSE AVG_WALKING_SPEED_DEN
      slackMillis == runnerTimeMillis
                       - METERS_PER_KM * (crossingPenalty + SPECTATOR_BUFFER_SECONDS)
  IN  SqrtCompare(speedNum * slackMillis, METERS_PER_KM * speedDen,
                  DistSq(lastSpotLatLng, potentialNextLatLng)) = 1

\* Faulty variant: the comparison of the two times the other way round
IsFeasibleReversed(lastSpotDistance, lastSpotLatLng, potentialNextDistance, potentialNextLatLng, secondsPerKm, profile, courseCoords) ==
  LET runnerTimeMillis == RunnerTimeMillis(lastSpotDistance, potentialNextDistance,
                                           secondsPerKm)
      crossingPenalty == CrossingPenalty(courseCoords, lastSpotLatLng,
                                         potentialNextLatLng)
      speedNum == IF profile = "walking" THEN AVG_WALKING_SPEED_NUM
                  ELSE AVG_CYCLING_SPEED_NUM
      speedDen == IF profile = "walking" THEN AVG_WALKING_SPEED_DEN
                  ELSE AVG_CYCLING_SPEED_DEN
      slackMillis == runnerTimeMillis
                       - METERS_PER_KM * (crossingPenalty + SPECTATOR_BUFFER_SECONDS)
  IN  /\ profile \in {"walking", "cycling"}
      /\ SqrtCompare(speedNum * slackMillis, METERS_PER_KM * speedDen,
                     DistSq(lastSpotLatLng, potentialNextLatLng)) = -1

\* Faulty variant: the spectator buffer is left out of the comparison
IsFeasibleNoBuffer(lastSpotDistance, lastSpotLatLng, potentialNextDistance, potentialNextLatLng, secondsPerKm, profile, courseCoords) ==
  LET runnerTimeMillis == RunnerTimeMillis(lastSpotDistance, potentialNextDistance,
                                           secondsPerKm)
      crossingPenalty == CrossingPenalty(courseCoords, lastSpotLatLng,
                                         potentialNextLatLng)
      speedNum == IF profile = "walking" THEN AVG_WALKING_SPEED_NUM
                  ELSE AVG_CYCLING_SPEED_NUM
      speedDen == IF profile = "walking" THEN AVG_WALKING_SPEED_DEN
                  ELSE AVG_CYCLING_SPEED_DEN
      slackMillis == runnerTimeMillis - METERS_PER_KM * crossingPenalty
  IN  /\ profile \in {"walking", "cycling"}
      /\ SqrtCompare(speedNum * slackMillis, METERS_PER_KM * speedDen,
                     DistSq(lastSpotLatLng, potentialNextLatLng)) = 1

\* isFeasible = runnerTimeSeconds >
\*                spectatorTimeSeconds + crossingPenalty + SPECTATOR_BUFFER_SECONDS
\* with runnerTimeSeconds = RunnerTimeMillis / 1000 and
\* spectatorTimeSeconds = straightLineDist / (speedNum / speedDen), Infinity
\* for transit.  Solved for straightLineDist:
\*   speedNum * (RunnerTimeMillis - 1000 * (penalty + buffer))
\*     / (1000 * speedDen)  >  sqrt(straightLineDistSq)
IsFeasible(lastSpotDistance, lastSpotLatLng, potentialNextDistance, potentialNextLatLng, secondsPerKm, profile, courseCoords) ==
  LET runnerTimeMillis == RunnerTimeMillis(lastSpotDistance, potentialNextDistance,
                                           secondsPerKm)
      crossingPenalty == CrossingPenalty(courseCoords, lastSpotLatLng,
                                         potentialNextLatLng)
      speedNum == IF profile = "walking" THEN AVG_WALKING_SPEED_NUM
                  ELSE AVG_CYCLING_SPEED_NUM
      speedDen == IF profile = "walking" THEN AVG_WALKING_SPEED_DEN
                  ELSE AVG_CYCLING_SPEED_DEN
      slackMillis == runnerTimeMillis
                       - METERS_PER_KM * (crossingPenalty + SPECTATOR_BUFFER_SECONDS)
  IN  /\ profile \in {"walking", "cycling"}
      /\ SqrtCompare(speedNum * slackMillis, METERS_PER_KM * speedDen,
                     DistSq(lastSpotLatLng, potentialNextLatLng)) = 1

\* for (let i = 0; i < availableMarkerEntries.length; i++) { ... }:
\* the index of the feasible unused entry with the least straight-line
\* distance (the first such on ties), 0 when there is none
RECURSIVE ScanCandidates(_, _, _, _, _, _, _, _)
ScanCandidates(entries, usedIndices, last, secondsPerKm, profile, courseCoords, i, best) ==
  IF i > Len(entries) THEN best.index
  ELSE IF i \in usedIndices
  THEN ScanCandidates(entries, usedIndices, last, secondsPerKm, profile,
                      courseCoords, i + 1, best)
  ELSE
    LET straightLineDistSq == DistSq(last[2], entries[i][2])
        isFeasible == IsFeasible(last[1], last[2], entries[i][1], entries[i][2],
                                 secondsPerKm, profile, courseCoords)
    IN  IF isFeasible /\ LessThan(straightLineDistSq, best.minSq)
        THEN ScanCandidates(entries, usedIndices, last, secondsPerKm, profile,
                            courseCoords, i + 1,
                            [index |-> i, minSq |-> straightLineDistSq])
        ELSE ScanCandidates(entries, usedIndices, last, secondsPerKm, profile,
                            courseCoords, i + 1, best)

\* Faulty variant: the last feasible unused entry, whatever its distance
BestNextSpotIndexLast(entries, usedIndices, last, secondsPerKm, profile, courseCoords) ==
  LET feasible == {i \in (1..Len(entries)) \ usedIndices :
                     IsFeasible(last[1], last[2], entries[i][1], entries[i][2],
                                secondsPerKm, profile, courseCoords)}
  IN  IF feasible = {} THEN 0
      ELSE CHOOSE i \in feasible : \A j \in feasible : j <= i

BestNextSpotIndex(entries, usedIndices, last, secondsPerKm, profile, courseCoords) ==
  ScanCandidates(entries, usedIndices, last, secondsPerKm, profile, courseCoords,
                 1, [index |-> 0, minSq |-> Infinity])

\* while (suggestedDistances.length < numToSelect) { ... }
RECURSIVE MinTravelWalk(_, _, _, _, _, _, _, _)
MinTravelWalk(entries, numToSelect, suggestedDistances, last, usedIndices, secondsPerKm, profile, courseCoords) ==
  IF Len(suggestedDistances) >= numToSelect THEN suggestedDistances
  ELSE LET bestNextSpotIndex ==
             BestNextSpotIndex(entries, usedIndices, last, secondsPerKm,
                               profile, courseCoords)
       IN  IF bestNextSpotIndex # 0
           THEN MinTravelWalk(entries, numToSelect,
                              Append(suggestedDistances, entries[bestNextSpotIndex][1]),
                              entries[bestNextSpotIndex],
                              usedIndices \cup {bestNextSpotIndex},
                              secondsPerKm, profile, courseCoords)
           ELSE suggestedDistances

\* Faulty variant: the walk is seeded with the last filtered candidate
MinTravelSeedLast(entries, numToSelect, secondsPerKm, profile, courseCoords) ==
  MinTravelWalk(entries, numToSelect, <<entries[Len(entries)][1]>>,
                entries[Len(entries)], {Len(entries)},
                secondsPerKm, profile, courseCoords)

MinTravel(entries, numToSelect, secondsPerKm, profile, courseCoords) ==
  MinTravelWalk(entries, numToSelect, <<entries[1][1]>>, entries[1], {1},
                secondsPerKm, profile, courseCoords)

\* Faulty variant: Math.floor in place of Math.round
MathFloor(num, den) == num \div den

\* Math.round(num / den) for den > 0: halves go up
MathRound(num, den) == (2 * num + den) \div (2 * den)

\* Faulty variant: the step is cut to a whole number before it is multiplied
SpreadIndexWholeStep(i, length, numToSelect) ==
  LET index == i * ((length - 1) \div (numToSelect - 1))
      safeIndex == Max(0, Min(index, length - 1))
  IN  safeIndex + 1

\* index = Math.round(i * step) with step = (length - 1) / (numToSelect - 1),
\* then clamped; i counts from 0, the result is a 1-based position
SpreadIndex(i, length, numToSelect) ==
  LET index == MathRound(i * (length - 1), numToSelect - 1)
      safeIndex == Max(0, Min(index, length - 1))
  IN  safeIndex + 1

\* Faulty variant: a single pick takes the first entry, not the last
MaxSpreadFirst(entries, numToSelect) ==
  IF numToSelect = 1 /\ Len(entries) > 0
  THEN <<entries[1][1]>>
  ELSE IF numToSelect > 1 /\ Len(entries) > 1
  THEN [i \in 1..numToSelect |->
          entries[SpreadIndex(i - 1, Len(entries), numToSelect)][1]]
  ELSE <<>>

MaxSpread(entries, numToSelect) ==
  IF numToSelect = 1 /\ Len(entries) > 0
  THEN <<entries[Len(entries)][1]>>
  ELSE IF numToSelect > 1 /\ Len(entries) > 1
  THEN [i \in 1..numToSelect |->
          entries[SpreadIndex(i - 1, Len(entries), numToSelect)][1]]
  ELSE <<>>

\* Faulty variant: the filter keeps only distances strictly beyond the threshold
AvailableMarkerEntriesStrict(positions, skipKm) ==
  LET skipDistance == skipKm * METERS_PER_KM
      kept == SortAscending({d \in DOMAIN positions : d > skipDistance})
  IN  [i \in 1..Len(kept) |-> <<kept[i], positions[kept[i]]>>]

\* potentiallyAvailableMarkers: entries at or beyond skipFirstKm * 1000,
\* ascending by distance
AvailableMarkerEntries(positions, skipKm) ==
  LET skipDistance == skipKm * METERS_PER_KM
      kept == SortAscending({d \in DOMAIN positions : d >= skipDistance})
  IN  [i \in 1..Len(kept) |-> <<kept[i], positions[kept[i]]>>]

\* Faulty variant: the callback without its guard on an empty pool, a
\* non-positive count or a missing course line
SuggestSpotsUnguarded(positions, numSpots, strategy, pace, profile, courseLine, skipKm) ==
  LET entries == AvailableMarkerEntries(positions, skipKm)
      numToSelect == Min(numSpots, Len(entries))
      parsed == parsePaceToSecondsPerMeter(pace)
      base == [outcome |-> "empty", numToSelect |-> 0,
               available |-> [i \in 1..Len(entries) |-> entries[i][1]],
               suggestedDistances |-> <<>>]
  IN  IF strategy = "maxSpread"
      THEN [base EXCEPT !.outcome = "done", !.numToSelect = numToSelect,
                        !.suggestedDistances = MaxSpread(entries, numToSelect)]
      ELSE IF parsed.isNull
      THEN [base EXCEPT !.outcome = "alert", !.numToSelect = numToSelect]
      ELSE IF Len(entries) = 0
      THEN [base EXCEPT !.outcome = "return", !.numToSelect = numToSelect]
      ELSE [base EXCEPT !.outcome = "done", !.numToSelect = numToSelect,
                        !.suggestedDistances =
                           MinTravel(entries, numToSelect, parsed.secondsPerKm,
                                     profile, courseLine.coords)]

\* The whole callback: what it does to selectedSpots ("empty" and "done"
\* replace the set, "alert" and "return" leave it) and the list it built
SuggestSpots(positions, numSpots, strategy, pace, profile, courseLine, skipKm) ==
  LET entries == AvailableMarkerEntries(positions, skipKm)
      numToSelect == Min(numSpots, Len(entries))
      parsed == parsePaceToSecondsPerMeter(pace)
      base == [outcome |-> "empty", numToSelect |-> 0,
               available |-> [i \in 1..Len(entries) |-> entries[i][1]],
               suggestedDistances |-> <<>>]
  IN  IF Len(entries) = 0 \/ numSpots <= 0 \/ courseLine.isNull THEN base
      ELSE IF strategy = "maxSpread"
      THEN [base EXCEPT !.outcome = "done", !.numToSelect = numToSelect,
                        !.suggestedDistances = MaxSpread(entries, numToSelect)]
      ELSE IF parsed.isNull
      THEN [base EXCEPT !.outcome = "alert", !.numToSelect = numToSelect]
      ELSE IF Len(entries) = 0
      THEN [base EXCEPT !.outcome = "return", !.numToSelect = numToSelect]
      ELSE [base EXCEPT !.outcome = "done", !.numToSelect = numToSelect,
                        !.suggestedDistances =
                           MinTravel(entries, numToSelect, parsed.secondsPerKm,
                                     profile, courseLine.coords)]

----------------------------------------------------------------------------
(* Inputs *)

MaxNumSpots == 3
MaxSkipKm == 1
MaxTrailPoints == 3

\* Largest count for which the spread indices are tabulated
MaxSpreadCount == 8

Pt(lat, lng) == LatLng(lat, lng)

\* Courses offered to the planner: tracks[0].points of an uploaded file
EmptyTrack == <<>>
OnePoint == <<Pt(0, 0)>>
ZeroLength == <<Pt(0, 0), Pt(0, 0)>>
ShortBend == <<Pt(0, 0), Pt(0, 70), Pt(50, 70)>>
OutAndBack == <<Pt(0, 0), Pt(0, 100), Pt(0, 0)>>
SelfCrossing ==
  <<Pt(0, 0), Pt(0, 100), Pt(100, 100), Pt(100, 75), Pt(-100, 75)>>
LongStraight == <<Pt(0, 0), Pt(0, 700), Pt(0, 1400)>>
StraightTenPoints == [i \in 1..10 |-> Pt(0, 500 * (i - 1))]

PlannerCourses ==
  {EmptyTrack, OnePoint, ZeroLength, ShortBend, OutAndBack, SelfCrossing,
   LongStraight}

\* Every rectilinear course of up to MaxTrailPoints points on a small grid
GridCoords == {0, 50, 120}
GridPoints == {Pt(a, b) : a \in GridCoords, b \in GridCoords}

Rectilinear(points) ==
  \A i \in 1..(Len(points) - 1) :
    points[i].lat = points[i + 1].lat \/ points[i].lng = points[i + 1].lng

GridCourses ==
  {c \in UNION {[1..n -> GridPoints] : n \in 0..MaxTrailPoints} : Rectilinear(c)}

TrailCourses == GridCourses \cup {StraightTenPoints}

\* Where the pointer can be when it meets the course line
PointerCoords == GridCoords \cup {20}
PointerPositions == {Pt(a, b) : a \in PointerCoords, b \in PointerCoords}

PaceInputs ==
  { <<>>,
    <<"a", "b", "c">>,
    <<"5", ":", "0", "0">>,
    <<"1", "5", "0", ":", "0", "0">>,
    <<"2", "0", "0", ":", "0", "0">> }

\* What is typed into the pace field, one character at a time
MaxPaceLen == 4
PaceAlphabet == {"5", "0", ":", "x", "-"}

\* Courses uploaded while the router is followed, and the number of requests
\* that may be unanswered when the user acts
RoutingCourses == {ShortBend, OutAndBack}
MaxInFlight == 2

\* What the time field (input type="time") hands over: nothing or HH:MM
StartTimeInputs ==
  { <<>>, <<"0", "9", ":", "0", "0">>, <<"2", "3", ":", "5", "9">> }

TravelProfiles == {"walking", "cycling", "transit"}
SuggestionStrategies == {"maxSpread", "minTravel"}

----------------------------------------------------------------------------
(* State *)

VARIABLES
  gpxData,                  \* App: [isNull, points] (points = tracks[0].points)
  runnerPace,               \* App: the pace text
  selectedSpots,            \* App: Set<number>
  markerPositions,          \* App: Map<number, LatLng>
  travelProfile,            \* App
  gpxCourseLine,            \* App: [isNull, coords]
  numSpotsToSuggest,        \* App
  suggestionStrategy,       \* App
  skipFirstKm,              \* App
  trailPoints,              \* MapComponent: trailPointsRef
  trailCumulativeDistances, \* MapComponent: trailCumulativeDistancesRef
  trailInfo,                \* MapComponent: the trail tooltip and what it shows
  effectPending,            \* the marker effect is scheduled and has not run
  suggestRun,               \* the handleSuggestSpots call that has just ended
  raceStartTime,            \* App: the start time text
  segmentTravelTimes,       \* App: [isNull, legs]
  routingControl,           \* MapComponent: routingControlRef, [isNull, waypoints, profile]
  routeRequests,            \* the router: requests sent and not yet answered
  routePending,             \* the routing effect is scheduled and has not run
  lastToggle                \* the handleSpotToggle call that has just ended

appInputs == <<runnerPace, travelProfile, numSpotsToSuggest, suggestionStrategy,
               skipFirstKm>>
courseVars == <<gpxData, gpxCourseLine>>
mapRefs == <<trailPoints, trailCumulativeDistances>>
routerVars == <<routingControl, routeRequests>>
routeVars == <<segmentTravelTimes, routingControl, routeRequests>>
vars == <<gpxData, runnerPace, selectedSpots, markerPositions, travelProfile,
          gpxCourseLine, numSpotsToSuggest, suggestionStrategy, skipFirstKm,
          trailPoints, trailCumulativeDistances, trailInfo, effectPending,
          suggestRun, raceStartTime, segmentTravelTimes, routingControl,
          routeRequests, routePending, lastToggle>>

NoGpx == [isNull |-> TRUE, points |-> <<>>]
NoLine == [isNull |-> TRUE, coords |-> <<>>]
NoTrailInfo ==
  [shown |-> FALSE, asked |-> FALSE, latlng |-> Pt(0, 0),
   nearest |-> [distanceSq |-> Infinity, point |-> Pt(0, 0),
                segmentIndex |-> 1, num |-> 0, den |-> 1],
   trailDistance |-> 0]
NoRun ==
  [ran |-> FALSE, outcome |-> "none", numToSelect |-> 0, available |-> <<>>,
   suggestedDistances |-> <<>>, before |-> {}, repeat |-> FALSE]
NoTimes == [isNull |-> TRUE, legs |-> <<>>]
NoControl == [isNull |-> TRUE, waypoints |-> <<>>, profile |-> "walking"]
NoToggle == [happened |-> FALSE, distance |-> 0, before |-> {}]

\* The sidebar enables its suggestion controls once a course with markers is loaded
isInputDisabled == gpxData.isNull
maxAvailableSpots == Cardinality(DOMAIN markerPositions)
SuggestionControlsEnabled ==
  ~effectPending /\ ~isInputDisabled /\ maxAvailableSpots # 0

Init ==
  /\ gpxData = NoGpx
  /\ runnerPace = <<>>
  /\ selectedSpots = {}
  /\ markerPositions = EmptyMap
  /\ travelProfile = "walking"
  /\ gpxCourseLine = NoLine
  /\ numSpotsToSuggest = 3
  /\ suggestionStrategy = "minTravel"
  /\ skipFirstKm = 0
  /\ trailPoints = <<>>
  /\ trailCumulativeDistances = <<>>
  /\ trailInfo = NoTrailInfo
  /\ effectPending = TRUE
  /\ suggestRun = NoRun
  /\ raceStartTime = <<>>
  /\ segmentTravelTimes = NoTimes
  /\ routingControl = NoControl
  /\ routeRequests = {}
  /\ routePending = TRUE
  /\ lastToggle = NoToggle

----------------------------------------------------------------------------
(* App callbacks *)

\* lineString(coords).geometry of a track with at least two points
CourseLineOf(points) ==
  IF Len(points) >= 2
  THEN [isNull |-> FALSE, coords |-> [i \in 1..Len(points) |-> Coord(points[i])]]
  ELSE NoLine

\* Faulty variant: a new course leaves the selected spots in place
handleGpxParsedKeepsSpots(points) ==
  /\ ~effectPending
  /\ gpxData' = [isNull |-> FALSE, points |-> points]
  /\ selectedSpots' = selectedSpots
  /\ markerPositions' = EmptyMap
  /\ gpxCourseLine' = CourseLineOf(points)
  /\ effectPending' = TRUE
  /\ suggestRun' = NoRun
  /\ lastToggle' = NoToggle
  /\ segmentTravelTimes' = NoTimes
  /\ routePending' = TRUE
  /\ UNCHANGED <<appInputs, mapRefs, trailInfo, raceStartTime, routerVars>>

\* Faulty variant: a new course leaves the marker positions in place
handleGpxParsedKeepsMarkers(points) ==
  /\ ~effectPending
  /\ gpxData' = [isNull |-> FALSE, points |-> points]
  /\ selectedSpots' = {}
  /\ markerPositions' = markerPositions
  /\ gpxCourseLine' = CourseLineOf(points)
  /\ effectPending' = TRUE
  /\ suggestRun' = NoRun
  /\ lastToggle' = NoToggle
  /\ segmentTravelTimes' = NoTimes
  /\ routePending' = TRUE
  /\ UNCHANGED <<appInputs, mapRefs, trailInfo, raceStartTime, routerVars>>

\* Faulty variant: a new course leaves the travel times in place
handleGpxParsedKeepsTimes(points) ==
  /\ ~effectPending
  /\ gpxData' = [isNull |-> FALSE, points |-> points]
  /\ selectedSpots' = {}
  /\ markerPositions' = EmptyMap
  /\ gpxCourseLine' = CourseLineOf(points)
  /\ effectPending' = TRUE
  /\ suggestRun' = NoRun
  /\ lastToggle' = NoToggle
  /\ segmentTravelTimes' = segmentTravelTimes
  /\ routePending' = TRUE
  /\ UNCHANGED <<appInputs, mapRefs, trailInfo, raceStartTime, routerVars>>

handleGpxParsed(points) ==
  /\ ~effectPending
  /\ gpxData' = [isNull |-> FALSE, points |-> points]
  /\ selectedSpots' = {}
  /\ markerPositions' = EmptyMap
  /\ gpxCourseLine' = CourseLineOf(points)
  /\ effectPending' = TRUE
  /\ suggestRun' = NoRun
  /\ lastToggle' = NoToggle
  /\ segmentTravelTimes' = NoTimes
  /\ routePending' = TRUE
  /\ UNCHANGED <<appInputs, mapRefs, trailInfo, raceStartTime, routerVars>>

handlePaceChange(pace) ==
  /\ ~effectPending
  /\ ~isInputDisabled
  /\ runnerPace' = pace
  /\ effectPending' = TRUE
  /\ suggestRun' = NoRun
  /\ lastToggle' = NoToggle
  /\ UNCHANGED <<courseVars, selectedSpots, markerPositions, travelProfile,
                 numSpotsToSuggest, suggestionStrategy, skipFirstKm, mapRefs,
                 trailInfo, raceStartTime, routeVars, routePending>>

\* The race start time field of the sidebar
handleRaceStartTimeChange(time) ==
  /\ ~effectPending
  /\ ~isInputDisabled
  /\ time # raceStartTime
  /\ raceStartTime' = time
  /\ effectPending' = TRUE
  /\ suggestRun' = NoRun
  /\ lastToggle' = NoToggle
  /\ UNCHANGED <<courseVars, appInputs, selectedSpots, markerPositions, mapRefs,
                 trailInfo, routeVars, routePending>>

\* Faulty variant: the updater only ever adds the distance
ToggledSpotsAddOnly(prevSpots, distance) == prevSpots \cup {distance}

\* The updater passed to setSelectedSpots: a copy of the set with the
\* distance deleted if it was there and added if it was not
ToggledSpots(prevSpots, distance) ==
  IF distance \in prevSpots
  THEN prevSpots \ {distance}
  ELSE prevSpots \cup {distance}

\* The remove button of a listed spot and a click on a selected marker
handleSpotToggle(distance) ==
  /\ ~effectPending
  /\ ~isInputDisabled
  /\ selectedSpots' = ToggledSpots(selectedSpots, distance)
  /\ effectPending' = TRUE
  /\ suggestRun' = NoRun
  /\ lastToggle' = [happened |-> TRUE, distance |-> distance,
                    before |-> selectedSpots]
  /\ routePending' = TRUE
  /\ UNCHANGED <<courseVars, appInputs, markerPositions, mapRefs, trailInfo,
                 raceStartTime, routeVars>>

\* The travel radio group is enabled with a course and two selected spots
handleTravelProfileChange(profile) ==
  /\ ~effectPending
  /\ ~isInputDisabled
  /\ Cardinality(selectedSpots) >= 2
  /\ travelProfile' = profile
  /\ suggestRun' = NoRun
  /\ lastToggle' = NoToggle
  /\ routePending' = (routePending \/ profile # travelProfile)
  /\ UNCHANGED <<courseVars, runnerPace, selectedSpots, markerPositions,
                 numSpotsToSuggest, suggestionStrategy, skipFirstKm, mapRefs,
                 trailInfo, effectPending, raceStartTime, routeVars>>

\* PlannerSidebar.handleNumSpotsInputChange, then App.handleNumSpotsChange
handleNumSpotsChange(typed) ==
  /\ SuggestionControlsEnabled
  /\ LET atLeastOne == IF typed < 1 THEN 1 ELSE typed
         num == IF maxAvailableSpots > 0 /\ atLeastOne > maxAvailableSpots
                THEN maxAvailableSpots ELSE atLeastOne
     IN  numSpotsToSuggest' = num
  /\ suggestRun' = NoRun
  /\ lastToggle' = NoToggle
  /\ UNCHANGED <<courseVars, runnerPace, selectedSpots, markerPositions,
                 travelProfile, suggestionStrategy, skipFirstKm, mapRefs,
                 trailInfo, effectPending, raceStartTime, routeVars,
                 routePending>>

handleSuggestionStrategyChange(strategy) ==
  /\ SuggestionControlsEnabled
  /\ suggestionStrategy' = strategy
  /\ suggestRun' = NoRun
  /\ lastToggle' = NoToggle
  /\ UNCHANGED <<courseVars, runnerPace, selectedSpots, markerPositions,
                 travelProfile, numSpotsToSuggest, skipFirstKm, mapRefs,
                 trailInfo, effectPending, raceStartTime, routeVars,
                 routePending>>

\* PlannerSidebar.handleSkipKmInputChange, then App.handleSkipFirstKmChange
handleSkipFirstKmChange(typed) ==
  /\ SuggestionControlsEnabled
  /\ skipFirstKm' = IF typed < 0 THEN 0 ELSE typed
  /\ suggestRun' = NoRun
  /\ lastToggle' = NoToggle
  /\ UNCHANGED <<courseVars, runnerPace, selectedSpots, markerPositions,
                 travelProfile, numSpotsToSuggest, suggestionStrategy,
                 mapRefs, trailInfo, effectPending, raceStartTime, routeVars,
                 routePending>>

\* The record of a call: its outcome, the list it built, the selection it
\* found, and whether it follows a call made with the very same inputs
SuggestRunRecord(run) ==
  [ran |-> TRUE, outcome |-> run.outcome, numToSelect |-> run.numToSelect,
   available |-> run.available, suggestedDistances |-> run.suggestedDistances,
   before |-> selectedSpots, repeat |-> suggestRun.ran]

\* Faulty variant: the result flips the spots it names in the current selection
handleSuggestSpotsToggling ==
  /\ SuggestionControlsEnabled
  /\ LET run == SuggestSpots(markerPositions, numSpotsToSuggest,
                             suggestionStrategy, runnerPace, travelProfile,
                             gpxCourseLine, skipFirstKm)
         replaces == run.outcome \in {"empty", "done"}
         result == Range(run.suggestedDistances)
     IN  /\ selectedSpots' = IF run.outcome = "empty" THEN {}
                             ELSE IF run.outcome = "done"
                             THEN (selectedSpots \ result) \cup (result \ selectedSpots)
                             ELSE selectedSpots
         /\ effectPending' = replaces
         /\ suggestRun' = SuggestRunRecord(run)
         /\ lastToggle' = NoToggle
         /\ routePending' = (routePending \/ replaces)
  /\ UNCHANGED <<courseVars, appInputs, markerPositions, mapRefs, trailInfo,
                 raceStartTime, routeVars>>

\* Faulty variant: the result is added to the current selection
handleSuggestSpotsMerging ==
  /\ SuggestionControlsEnabled
  /\ LET run == SuggestSpots(markerPositions, numSpotsToSuggest,
                             suggestionStrategy, runnerPace, travelProfile,
                             gpxCourseLine, skipFirstKm)
         replaces == run.outcome \in {"empty", "done"}
     IN  /\ selectedSpots' = IF run.outcome = "empty" THEN {}
                             ELSE IF run.outcome = "done"
                             THEN selectedSpots \cup Range(run.suggestedDistances)
                             ELSE selectedSpots
         /\ effectPending' = replaces
         /\ suggestRun' = SuggestRunRecord(run)
         /\ lastToggle' = NoToggle
         /\ routePending' = (routePending \/ replaces)
  /\ UNCHANGED <<courseVars, appInputs, markerPositions, mapRefs, trailInfo,
                 raceStartTime, routeVars>>

handleSuggestSpots ==
  /\ SuggestionControlsEnabled
  /\ LET run == SuggestSpots(markerPositions, numSpotsToSuggest,
                             suggestionStrategy, runnerPace, travelProfile,
                             gpxCourseLine, skipFirstKm)
         replaces == run.outcome \in {"empty", "done"}
     IN  /\ selectedSpots' = IF run.outcome = "empty" THEN {}
                             ELSE IF run.outcome = "done"
                             THEN Range(run.suggestedDistances)
                             ELSE selectedSpots
         /\ effectPending' = replaces
         /\ suggestRun' = SuggestRunRecord(run)
         /\ lastToggle' = NoToggle
         /\ routePending' = (routePending \/ replaces)
  /\ UNCHANGED <<courseVars, appInputs, markerPositions, mapRefs, trailInfo,
                 raceStartTime, routeVars>>

----------------------------------------------------------------------------
(* MapComponent *)

\* The effect that draws the track and calculates the potential spots; it
\* reports the positions through handleMarkerPositionsCalculated, and the new
\* Map it reports gives App a new waypoints array, which schedules the
\* routing effect
MapEffect ==
  /\ effectPending
  /\ effectPending' = FALSE
  /\ IF gpxData.isNull
     THEN /\ markerPositions' = EmptyMap
          /\ routePending' = TRUE
          /\ UNCHANGED mapRefs
     ELSE /\ trailPoints' = gpxData.points
          /\ IF Len(gpxData.points) > 1
             THEN /\ trailCumulativeDistances' = CumulativeDistances(gpxData.points)
                  /\ markerPositions' = PotentialSpots(gpxData.points)
                  /\ routePending' = TRUE
             ELSE UNCHANGED <<trailCumulativeDistances, markerPositions,
                              routePending>>
  /\ UNCHANGED <<courseVars, appInputs, selectedSpots, trailInfo, suggestRun,
                 lastToggle, raceStartTime, routeVars>>

\* mousemove / click on the course line: showTrailInfo with the points and
\* cumulative distances of the drawn course
showTrailInfo(latlng) ==
  /\ ~effectPending
  /\ ~gpxData.isNull
  /\ Len(gpxData.points) > 1
  /\ LET nearest == findNearestPointOnTrail(latlng, trailPoints)
         tooFar == \/ nearest.distanceSq = Infinity
                   \/ nearest.distanceSq
                        > TRAIL_INFO_THRESHOLD_METERS * TRAIL_INFO_THRESHOLD_METERS
     IN  trailInfo' =
           IF tooFar
           THEN [shown |-> FALSE, asked |-> TRUE, latlng |-> latlng,
                 nearest |-> nearest, trailDistance |-> 0]
           ELSE [shown |-> TRUE, asked |-> TRUE, latlng |-> latlng,
                 nearest |-> nearest,
                 trailDistance |->
                   calculateDistanceAlongTrail(nearest.segmentIndex, nearest.num,
                                               nearest.den, trailPoints,
                                               trailCumulativeDistances)]
  /\ UNCHANGED <<courseVars, appInputs, selectedSpots, markerPositions,
                 mapRefs, effectPending, suggestRun, lastToggle,
                 raceStartTime, routeVars, routePending>>

----------------------------------------------------------------------------
(* MapComponent: the routing effect, and the router's answers *)

\* App.waypoints: the selected spots in ascending order, mapped through
\* markerPositions, the ones without a position filtered out
WaypointsOf(spots, positions) ==
  LET sortedSpots == SortAscending(spots)
      located == SelectSeq(sortedSpots, LAMBDA distance : distance \in DOMAIN positions)
  IN  [i \in 1..Len(located) |-> positions[located[i]]]

waypoints == WaypointsOf(selectedSpots, markerPositions)

\* What a routing control asks of the router
RouteRequest(points, profile) == [waypoints |-> points, profile |-> profile]

\* routeData.legs.map(leg => leg.summary.totalTime) of the answer to a
\* request: the router returns one leg per consecutive pair of waypoints, and
\* a travel time is written here as the leg it belongs to
LegTimes(request) ==
  [i \in 1..(Len(request.waypoints) - 1) |->
     [from |-> request.waypoints[i], to |-> request.waypoints[i + 1],
      profile |-> request.profile]]

\* Faulty variant: the effect routes under every travel profile
RoutingEffectAnyProfile ==
  /\ routePending
  /\ ~effectPending
  /\ routePending' = FALSE
  /\ segmentTravelTimes' = NoTimes
  /\ IF Len(waypoints) >= 2
     THEN /\ routingControl' = [isNull |-> FALSE, waypoints |-> waypoints,
                                profile |-> travelProfile]
          /\ routeRequests' = routeRequests
                                \cup {RouteRequest(waypoints, travelProfile)}
     ELSE /\ routingControl' = NoControl
          /\ UNCHANGED routeRequests
  /\ UNCHANGED <<courseVars, appInputs, selectedSpots, markerPositions, mapRefs,
                 trailInfo, effectPending, suggestRun, lastToggle, raceStartTime>>

\* The routing effect, with the cleanup of its previous run: the control on
\* the map is removed, the travel times are cleared, and with two or more
\* waypoints and a profile other than transit a new control is put on the
\* map, which sends its request at once.  Removing a control does not take
\* back the request it sent.
RoutingEffect ==
  /\ routePending
  /\ ~effectPending
  /\ routePending' = FALSE
  /\ segmentTravelTimes' = NoTimes
  /\ IF Len(waypoints) >= 2 /\ travelProfile # "transit"
     THEN /\ routingControl' = [isNull |-> FALSE, waypoints |-> waypoints,
                                profile |-> travelProfile]
          /\ routeRequests' = routeRequests
                                \cup {RouteRequest(waypoints, travelProfile)}
     ELSE /\ routingControl' = NoControl
          /\ UNCHANGED routeRequests
  /\ UNCHANGED <<courseVars, appInputs, selectedSpots, markerPositions, mapRefs,
                 trailInfo, effectPending, suggestRun, lastToggle, raceStartTime>>

\* 'routesfound' on the control that sent the request: the handler stores the
\* leg times of the first route, or null when the route carries no legs.  It
\* does not ask whether its control is still the one on the map.
RoutesFound(request, hasLegs) ==
  /\ ~effectPending
  /\ ~routePending
  /\ request \in routeRequests
  /\ routeRequests' = routeRequests \ {request}
  /\ segmentTravelTimes' =
       IF hasLegs /\ Len(LegTimes(request)) > 0
       THEN [isNull |-> FALSE, legs |-> LegTimes(request)]
       ELSE NoTimes
  /\ UNCHANGED <<courseVars, appInputs, selectedSpots, markerPositions, mapRefs,
                 trailInfo, effectPending, suggestRun, lastToggle, raceStartTime,
                 routingControl, routePending>>

\* 'routingerror' on the control that sent the request
RoutingError(request) ==
  /\ ~effectPending
  /\ ~routePending
  /\ request \in routeRequests
  /\ routeRequests' = routeRequests \ {request}
  /\ segmentTravelTimes' = NoTimes
  /\ UNCHANGED <<courseVars, appInputs, selectedSpots, markerPositions, mapRefs,
                 trailInfo, effectPending, suggestRun, lastToggle, raceStartTime,
                 routingControl, routePending>>

\* The answer to the request of a control that is no longer on the map is
\* never reported
RouteDropped(request) ==
  /\ ~effectPending
  /\ ~routePending
  /\ request \in routeRequests
  /\ \/ routingControl.isNull
     \/ request # RouteRequest(routingControl.waypoints, routingControl.profile)
  /\ routeRequests' = routeRequests \ {request}
  /\ UNCHANGED <<courseVars, appInputs, selectedSpots, markerPositions, mapRefs,
                 trailInfo, effectPending, suggestRun, lastToggle, raceStartTime,
                 segmentTravelTimes, routingControl, routePending>>

----------------------------------------------------------------------------

(* Specifications *)

\* The planner: uploads, the sidebar's controls, suggestion runs
Next ==
  \/ \E points \in PlannerCourses : handleGpxParsed(points)
  \/ \E pace \in PaceInputs : handlePaceChange(pace)
  \/ \E distance \in selectedSpots : handleSpotToggle(distance)
  \/ \E profile \in TravelProfiles : handleTravelProfileChange(profile)
  \/ \E typed \in 0..MaxNumSpots : handleNumSpotsChange(typed)
  \/ \E strategy \in SuggestionStrategies : handleSuggestionStrategyChange(strategy)
  \/ \E typed \in -1..MaxSkipKm : handleSkipFirstKmChange(typed)
  \/ handleSuggestSpots
  \/ MapEffect

Spec == Init /\ [][Next]_vars

\* The map alone: one uploaded course, indexed and probed with the pointer
InitTrail ==
  /\ \E points \in TrailCourses :
       /\ gpxData = [isNull |-> FALSE, points |-> points]
       /\ gpxCourseLine = CourseLineOf(points)
  /\ runnerPace = <<>>
  /\ selectedSpots = {}
  /\ markerPositions = EmptyMap
  /\ travelProfile = "walking"
  /\ numSpotsToSuggest = 3
  /\ suggestionStrategy = "minTravel"
  /\ skipFirstKm = 0
  /\ trailPoints = <<>>
  /\ trailCumulativeDistances = <<>>
  /\ trailInfo = NoTrailInfo
  /\ effectPending = TRUE
  /\ suggestRun = NoRun
  /\ raceStartTime = <<>>
  /\ segmentTravelTimes = NoTimes
  /\ routingControl = NoControl
  /\ routeRequests = {}
  /\ routePending = TRUE
  /\ lastToggle = NoToggle

NextTrail ==
  \/ MapEffect
  \/ \E latlng \in PointerPositions : showTrailInfo(latlng)

SpecTrail == InitTrail /\ [][NextTrail]_vars

\* The pace field and the start time field: a bent 120 m course is loaded,
\* the pace is typed and erased character by character and the start time is
\* set and cleared, with suggestion runs in between
InitPace ==
  /\ gpxData = [isNull |-> FALSE, points |-> ShortBend]
  /\ gpxCourseLine = CourseLineOf(ShortBend)
  /\ runnerPace = <<>>
  /\ selectedSpots = {}
  /\ markerPositions = EmptyMap
  /\ travelProfile = "walking"
  /\ numSpotsToSuggest = 3
  /\ suggestionStrategy = "minTravel"
  /\ skipFirstKm = 0
  /\ trailPoints = <<>>
  /\ trailCumulativeDistances = <<>>
  /\ trailInfo = NoTrailInfo
  /\ effectPending = TRUE
  /\ suggestRun = NoRun
  /\ raceStartTime = <<>>
  /\ segmentTravelTimes = NoTimes
  /\ routingControl = NoControl
  /\ routeRequests = {}
  /\ routePending = TRUE
  /\ lastToggle = NoToggle

NextPace ==
  \/ MapEffect
  \/ \E c \in PaceAlphabet :
       /\ Len(runnerPace) < MaxPaceLen
       /\ handlePaceChange(Append(runnerPace, c))
  \/ /\ Len(runnerPace) > 0
     /\ handlePaceChange(SubSeq(runnerPace, 1, Len(runnerPace) - 1))
  \/ \E time \in StartTimeInputs : handleRaceStartTimeChange(time)
  \/ handleSuggestSpots

SpecPace == InitPace /\ [][NextPace]_vars

\* The planner with its router: a course is loaded, maxSpread is chosen, and
\* spots are suggested and removed and the travel profile changed while the
\* router answers at its own pace.  An event is handled once the effects of
\* the event before it have run, and the user waits while MaxInFlight
\* requests are unanswered.
InitRouting ==
  /\ gpxData = [isNull |-> FALSE, points |-> ShortBend]
  /\ gpxCourseLine = CourseLineOf(ShortBend)
  /\ runnerPace = <<>>
  /\ selectedSpots = {}
  /\ markerPositions = EmptyMap
  /\ travelProfile = "walking"
  /\ numSpotsToSuggest = 3
  /\ suggestionStrategy = "maxSpread"
  /\ skipFirstKm = 0
  /\ trailPoints = <<>>
  /\ trailCumulativeDistances = <<>>
  /\ trailInfo = NoTrailInfo
  /\ effectPending = TRUE
  /\ suggestRun = NoRun
  /\ raceStartTime = <<>>
  /\ segmentTravelTimes = NoTimes
  /\ routingControl = NoControl
  /\ routeRequests = {}
  /\ routePending = TRUE
  /\ lastToggle = NoToggle

UserCanAct == ~routePending /\ Cardinality(routeRequests) < MaxInFlight

NextRouting ==
  \/ /\ UserCanAct
     /\ \E points \in RoutingCourses : handleGpxParsed(points)
  \/ /\ UserCanAct
     /\ \E distance \in selectedSpots : handleSpotToggle(distance)
  \/ /\ UserCanAct
     /\ \E profile \in TravelProfiles : handleTravelProfileChange(profile)
  \/ /\ UserCanAct
     /\ handleSuggestSpots
  \/ MapEffect
  \/ RoutingEffect
  \/ \E request \in routeRequests, hasLegs \in BOOLEAN : RoutesFound(request, hasLegs)
  \/ \E request \in routeRequests : RoutingError(request)
  \/ \E request \in routeRequests : RouteDropped(request)

SpecRouting == InitRouting /\ [][NextRouting]_vars

----------------------------------------------------------------------------
(* Properties: vocabulary *)

StrictlyIncreasing(seq) == \A i \in 1..(Len(seq) - 1) : seq[i] < seq[i + 1]

\* sub can be read off full from left to right, skipping elements
RECURSIVE IsSubsequence(_, _)
IsSubsequence(sub, full) ==
  IF sub = <<>> THEN TRUE
  ELSE IF full = <<>> THEN FALSE
  ELSE IF Head(sub) = Head(full) THEN IsSubsequence(Tail(sub), Tail(full))
  ELSE IsSubsequence(sub, Tail(full))

SkipThreshold == skipFirstKm * 1000

\* The candidates at or beyond the skip threshold
FilteredKeys == {d \in DOMAIN markerPositions : d >= SkipThreshold}

SuggestRan == suggestRun.ran
SuggestDone == suggestRun.ran /\ suggestRun.outcome = "done"
MinTravelDone == SuggestDone /\ suggestionStrategy = "minTravel"
MaxSpreadDone == SuggestDone /\ suggestionStrategy = "maxSpread"

MalformedPaces == { <<>>, <<"a", "b", "c">> }

----------------------------------------------------------------------------
(* C1 *)

\* C1: the distances returned by the minTravel strategy are strictly
\* increasing and form a subsequence of the filtered candidates in ascending
\* order, although the loop only excludes used indices.
C1_MinTravelMonotonic ==
  MinTravelDone =>
    /\ StrictlyIncreasing(suggestRun.available)
    /\ Range(suggestRun.available) = FilteredKeys
    /\ StrictlyIncreasing(suggestRun.suggestedDistances)
    /\ IsSubsequence(suggestRun.suggestedDistances, suggestRun.available)

\* A walk of three spots that passed over candidates lying between its picks
C1_Witness ==
  /\ MinTravelDone
  /\ Len(suggestRun.suggestedDistances) >= 3
  /\ \E d \in FilteredKeys :
       /\ suggestRun.suggestedDistances[1] < d
       /\ d < suggestRun.suggestedDistances[2]

----------------------------------------------------------------------------
(* C2 *)

\* (next - prev) * pace > straight / speed + penalty + 600, with pace =
\* secondsPerKm / 1000, speed = 1.4 (walking) or 5.5 (cycling), penalty = 300
\* on a true crossing: multiplied out by 1000 and by the speed
C2_FeasibleStep(prev, next) ==
  LET secondsPerKm == parsePaceToSecondsPerMeter(runnerPace).secondsPerKm
      a == markerPositions[prev]
      b == markerPositions[next]
      penalty == IF TrueIntersection(gpxCourseLine.coords, a, b) THEN 300 ELSE 0
      margin == (next - prev) * secondsPerKm - 1000 * (penalty + 600)
  IN  \/ /\ travelProfile = "walking"
         /\ SqrtCompare(14 * margin, 10000, DistSq(a, b)) = 1
      \/ /\ travelProfile = "cycling"
         /\ SqrtCompare(55 * margin, 10000, DistSq(a, b)) = 1

\* C2: in a minTravel result every spot after the seed was feasible from the
\* spot selected just before it, the crossing penalty included.
C2_EveryStepFeasible ==
  MinTravelDone =>
    \A i \in 1..(Len(suggestRun.suggestedDistances) - 1) :
      C2_FeasibleStep(suggestRun.suggestedDistances[i],
                      suggestRun.suggestedDistances[i + 1])

\* A result with a step whose straight path truly crosses the course
C2_Witness ==
  /\ MinTravelDone
  /\ \E i \in 1..(Len(suggestRun.suggestedDistances) - 1) :
       TrueIntersection(gpxCourseLine.coords,
                        markerPositions[suggestRun.suggestedDistances[i]],
                        markerPositions[suggestRun.suggestedDistances[i + 1]])

----------------------------------------------------------------------------
(* C3 *)

\* C3 as stated: a minTravel run with an unparseable pace always ends in the
\* validation failure and leaves SelectedSpots as it was, the empty filtered
\* pool included.
C3_AlwaysValidationFailure ==
  (SuggestRan /\ suggestionStrategy = "minTravel" /\ runnerPace \in MalformedPaces)
    => /\ suggestRun.outcome = "alert"
       /\ selectedSpots = suggestRun.before

\* C3, amended: with a non-empty filtered pool the run ends in the validation
\* failure and SelectedSpots is unchanged; with an empty filtered pool it ends
\* without a validation failure and SelectedSpots becomes empty.
C3_ValidationFailureAfterEmptyCheck ==
  (SuggestRan /\ suggestionStrategy = "minTravel" /\ runnerPace \in MalformedPaces)
    => IF FilteredKeys # {}
       THEN /\ suggestRun.outcome = "alert"
            /\ selectedSpots = suggestRun.before
       ELSE /\ suggestRun.outcome = "empty"
            /\ selectedSpots = {}

\* The validation failure with spots selected beforehand
C3_Witness ==
  /\ SuggestRan
  /\ suggestionStrategy = "minTravel"
  /\ runnerPace \in MalformedPaces
  /\ suggestRun.outcome = "alert"
  /\ suggestRun.before # {}
  /\ selectedSpots = suggestRun.before

----------------------------------------------------------------------------
(* C4 *)

\* C4: every selected distance is a key of markerPositions.
C4_SelectedAreCandidates == selectedSpots \subseteq DOMAIN markerPositions

\* Spots, the finish among them, are selected on the bent 120 m course
C4_Witness ==
  /\ ~effectPending
  /\ selectedSpots # {}
  /\ gpxData.points = ShortBend
  /\ 120 \in selectedSpots

----------------------------------------------------------------------------
(* C5 *)

\* C5: no returned distance lies below skipFirstKm * 1000, and a candidate
\* exactly at the threshold stays in the pool, where it is the first of the
\* filtered candidates (the seed of minTravel, the first pick of a maxSpread run
\* of more than one spot).
C5_SkipFilter ==
  SuggestRan =>
    /\ \A d \in Range(suggestRun.suggestedDistances) : d >= SkipThreshold
    /\ SkipThreshold \in DOMAIN markerPositions =>
         /\ SkipThreshold \in Range(suggestRun.available)
         /\ (SuggestDone /\ (suggestionStrategy = "minTravel" \/ suggestRun.numToSelect > 1))
              => suggestRun.suggestedDistances[1] = SkipThreshold

\* A run with a positive threshold that returned the candidate exactly on it
C5_Witness ==
  /\ SuggestDone
  /\ skipFirstKm >= 1
  /\ SkipThreshold \in Range(suggestRun.suggestedDistances)
  /\ \E d \in DOMAIN markerPositions : d < SkipThreshold

----------------------------------------------------------------------------
(* C6 *)

\* C6: maxSpread with numToSelect = 1 returns exactly the furthest filtered
\* candidate; with numToSelect = filteredCount it returns every filtered
\* candidate.
C6_MaxSpreadBoundary ==
  MaxSpreadDone =>
    /\ suggestRun.numToSelect = 1 =>
         /\ Len(suggestRun.suggestedDistances) = 1
         /\ suggestRun.suggestedDistances[1] \in FilteredKeys
         /\ \A d \in FilteredKeys : d <= suggestRun.suggestedDistances[1]
    /\ suggestRun.numToSelect = Cardinality(FilteredKeys) =>
         /\ Range(suggestRun.suggestedDistances) = FilteredKeys
         /\ selectedSpots = FilteredKeys

\* All of several filtered candidates requested and returned
C6_Witness ==
  /\ MaxSpreadDone
  /\ Cardinality(FilteredKeys) >= 2
  /\ suggestRun.numToSelect = Cardinality(FilteredKeys)
  /\ selectedSpots = FilteredKeys

----------------------------------------------------------------------------
(* C7 *)

\* The integer nearest to num / den, halves up: r - 1/2 <= num/den < r + 1/2
C7_Nearest(num, den) ==
  CHOOSE r \in 0..num :
    /\ 2 * r * den - den <= 2 * num
    /\ 2 * num < 2 * r * den + den

\* C7: with maxSpread and numToSelect > 1, the i-th pick is the filtered
\* candidate at index round(i * (filteredCount - 1) / (numToSelect - 1)),
\* clamped; filteredCount = 9 and numToSelect = 3 pick indices 0, 4 and 8.
C7_MaxSpreadIndices ==
  (MaxSpreadDone /\ suggestRun.numToSelect > 1) =>
    LET n == Len(suggestRun.available)
        k == suggestRun.numToSelect
    IN  /\ Len(suggestRun.suggestedDistances) = k
        /\ \A i \in 0..(k - 1) :
             LET r == C7_Nearest(i * (n - 1), k - 1)
                 clamped == IF r < 0 THEN 0 ELSE IF r > n - 1 THEN n - 1 ELSE r
             IN  suggestRun.suggestedDistances[i + 1] = suggestRun.available[clamped + 1]
        /\ (n = 9 /\ k = 3) =>
             suggestRun.suggestedDistances =
               <<suggestRun.available[1], suggestRun.available[5],
                 suggestRun.available[9]>>

\* Three of nine filtered candidates
C7_Witness ==
  /\ MaxSpreadDone
  /\ Len(suggestRun.available) = 9
  /\ suggestRun.numToSelect = 3
  /\ Len(suggestRun.suggestedDistances) = 3

----------------------------------------------------------------------------
(* Properties of the course index: vocabulary *)

CoursePoints == gpxData.points

\* The marker effect has run on the loaded course
Indexed == ~effectPending /\ ~gpxData.isNull

\* The length of a rectilinear segment, and of the course up to point k
SegmentMetres(i) ==
  Abs(CoursePoints[i + 1].lat - CoursePoints[i].lat)
    + Abs(CoursePoints[i + 1].lng - CoursePoints[i].lng)

RECURSIVE MetresTo(_)
MetresTo(k) == IF k <= 1 THEN 0 ELSE MetresTo(k - 1) + SegmentMetres(k - 1)

TotalCourseLength == MetresTo(Len(CoursePoints))

----------------------------------------------------------------------------
(* C8 *)

C8_ExpectedKeys ==
  {50 * j : j \in 1..(TotalCourseLength \div 50)} \cup {TotalCourseLength}

\* C8 as stated: the keys are I, 2I, ..., floor(L/I)*I plus L, and their number
\* is floor(L/I) when L is an exact multiple of I and floor(L/I) + 1 otherwise.
C8_CandidateCoverage ==
  (Indexed /\ Len(CoursePoints) >= 2) =>
    /\ DOMAIN markerPositions = C8_ExpectedKeys
    /\ Cardinality(DOMAIN markerPositions) =
         IF TotalCourseLength % 50 = 0
         THEN TotalCourseLength \div 50
         ELSE TotalCourseLength \div 50 + 1

\* C8, amended: the same keys; their number is floor(L/I) when L is a positive
\* exact multiple of I and floor(L/I) + 1 otherwise, the course of length 0
\* (one key, 0) included; the straight 4500 m course has 90 keys.
C8_CandidateCoveragePositiveLength ==
  (Indexed /\ Len(CoursePoints) >= 2) =>
    /\ DOMAIN markerPositions = C8_ExpectedKeys
    /\ Cardinality(DOMAIN markerPositions) =
         IF TotalCourseLength % 50 = 0 /\ TotalCourseLength > 0
         THEN TotalCourseLength \div 50
         ELSE TotalCourseLength \div 50 + 1
    /\ CoursePoints = StraightTenPoints =>
         /\ TotalCourseLength = 4500
         /\ Cardinality(DOMAIN markerPositions) = 90

\* The straight course of ten points 500 m apart, indexed
C8_Witness ==
  /\ Indexed
  /\ CoursePoints = StraightTenPoints
  /\ 4500 \in DOMAIN markerPositions
  /\ Cardinality(DOMAIN markerPositions) = 90

----------------------------------------------------------------------------
(* C9 *)

C9_TableAligned ==
  /\ Len(trailCumulativeDistances) = Len(CoursePoints)
  /\ Len(trailCumulativeDistances) >= 1 => trailCumulativeDistances[1] = 0
  /\ \A i \in 2..Len(trailCumulativeDistances) :
       /\ trailCumulativeDistances[i] >= trailCumulativeDistances[i - 1]
       /\ trailCumulativeDistances[i] =
            trailCumulativeDistances[i - 1] + SegmentMetres(i - 1)

----------------------------------------------------------------------------
(* C10 *)

\* The pointer was put exactly on vertex k
ProbedVertex(k) ==
  /\ Indexed
  /\ trailInfo.asked
  /\ k \in 1..Len(CoursePoints)
  /\ trailInfo.latlng = CoursePoints[k]

\* Point q lies on the (rectilinear, non-degenerate) segment i
OnSegment(q, i) ==
  LET a == CoursePoints[i]
      b == CoursePoints[i + 1]
  IN  /\ a # b
      /\ \/ /\ a.lat = b.lat /\ q.lat = a.lat
            /\ Min(a.lng, b.lng) <= q.lng /\ q.lng <= Max(a.lng, b.lng)
         \/ /\ a.lng = b.lng /\ q.lng = a.lng
            /\ Min(a.lat, b.lat) <= q.lat /\ q.lat <= Max(a.lat, b.lat)

\* The along-course distances at which the course is at point q
PassesAt(q) ==
  {MetresTo(i) + Abs(q.lat - CoursePoints[i].lat) + Abs(q.lng - CoursePoints[i].lng) :
     i \in {j \in 1..(Len(CoursePoints) - 1) : OnSegment(q, j)}}

\* C10 as stated: on every course of at least 2 points, revisited and repeated
\* points included, projecting vertex k gives perpendicular distance 0 and the
\* cumulative distance of vertex k.
C10_VertexProjection ==
  \A k \in 1..Len(CoursePoints) :
    (ProbedVertex(k) /\ Len(CoursePoints) >= 2) =>
      /\ trailInfo.nearest.distanceSq = 0
      /\ trailInfo.shown
      /\ trailInfo.trailDistance = MetresTo(k)

\* C10, amended: on every course of at least 2 points that are not all the same
\* point, projecting vertex k gives perpendicular distance 0 and the
\* along-course distance at which the course first reaches that position: the
\* cumulative distance of vertex k unless the course was there earlier.
C10_VertexProjectionFirstPass ==
  \A k \in 1..Len(CoursePoints) :
    (ProbedVertex(k) /\ Len(CoursePoints) >= 2 /\ TotalCourseLength > 0) =>
      /\ trailInfo.nearest.distanceSq = 0
      /\ trailInfo.shown
      /\ trailInfo.trailDistance \in PassesAt(CoursePoints[k])
      /\ \A d \in PassesAt(CoursePoints[k]) : trailInfo.trailDistance <= d
      /\ trailInfo.trailDistance <= MetresTo(k)
      /\ (\A d \in PassesAt(CoursePoints[k]) : d >= MetresTo(k))
           => trailInfo.trailDistance = MetresTo(k)

\* The last vertex of a three-point course, probed after a repeated point or a
\* bend, found at its own cumulative distance
C10_Witness ==
  /\ ProbedVertex(3)
  /\ trailInfo.shown
  /\ MetresTo(3) > 0
  /\ trailInfo.trailDistance = MetresTo(3)
  /\ trailInfo.nearest.segmentIndex = 2

----------------------------------------------------------------------------
(* C11 *)

\* C11: a handleSuggestSpots call that follows a call made with the same
\* candidate map, count, strategy, pace, travel profile, skip threshold and
\* course leaves SelectedSpots as the first call left it, and builds the same
\* list again.
C11_SecondRunSameSelection ==
  (SuggestRan /\ suggestRun.repeat) =>
    /\ selectedSpots = suggestRun.before
    /\ suggestRun.outcome \in {"empty", "done"} =>
         selectedSpots = Range(suggestRun.suggestedDistances)

\* A second run in a row that selected several spots again
C11_Witness ==
  /\ SuggestDone
  /\ suggestRun.repeat
  /\ Cardinality(selectedSpots) >= 2
  /\ selectedSpots = suggestRun.before

----------------------------------------------------------------------------
(* C12 *)

\* C12: when the filtered candidate list is empty or numSpotsToSuggest <= 0,
\* handleSuggestSpots produces the empty selection and raises no validation
\* error, under either strategy.  The sidebar never hands over a count below
\* 1, so the callback is also evaluated on the counts 0 and -1 with the
\* other inputs as they stand.
C12_EmptyPoolEmptySelection ==
  /\ (SuggestRan /\ (FilteredKeys = {} \/ numSpotsToSuggest <= 0)) =>
       /\ suggestRun.outcome = "empty"
       /\ suggestRun.suggestedDistances = <<>>
       /\ selectedSpots = {}
  /\ \A numSpots \in {-1, 0} : \A strategy \in SuggestionStrategies :
       LET run == SuggestSpots(markerPositions, numSpots, strategy, runnerPace,
                               travelProfile, gpxCourseLine, skipFirstKm)
       IN  run.outcome = "empty" /\ run.suggestedDistances = <<>>

\* A run on a pool emptied by the skip threshold that cleared a selection
C12_Witness ==
  /\ SuggestRan
  /\ DOMAIN markerPositions # {}
  /\ FilteredKeys = {}
  /\ suggestRun.outcome = "empty"
  /\ suggestRun.before # {}
  /\ selectedSpots = {}

----------------------------------------------------------------------------
(* C13 *)

\* C13: every spot the minTravel walk appends is feasible from the spot
\* before it and no unused feasible candidate lies nearer to that spot in a
\* straight line; a walk that ends short of numToSelect ends where no unused
\* candidate is feasible, and its partial list is installed as the selection.
C13_NearestFeasibleNext ==
  MinTravelDone =>
    LET picked == suggestRun.suggestedDistances
        pool == Range(suggestRun.available)
        n == Len(picked)
    IN  /\ n >= 1 /\ n <= suggestRun.numToSelect
        /\ \A j \in 2..n :
             LET prev == picked[j - 1]
                 unused == pool \ {picked[i] : i \in 1..(j - 1)}
             IN  /\ picked[j] \in unused
                 /\ C2_FeasibleStep(prev, picked[j])
                 /\ \A c \in unused :
                      C2_FeasibleStep(prev, c) =>
                        DistSq(markerPositions[prev], markerPositions[picked[j]])
                          <= DistSq(markerPositions[prev], markerPositions[c])
        /\ n < suggestRun.numToSelect =>
             \A c \in pool \ Range(picked) : ~C2_FeasibleStep(picked[n], c)
        /\ selectedSpots = Range(picked)

\* A walk that preferred the nearer of two feasible candidates and then
\* stopped short of the requested count
C13_Witness ==
  /\ MinTravelDone
  /\ Len(suggestRun.suggestedDistances) >= 2
  /\ Len(suggestRun.suggestedDistances) < suggestRun.numToSelect
  /\ selectedSpots = Range(suggestRun.suggestedDistances)
  /\ \E c \in Range(suggestRun.available) \ Range(suggestRun.suggestedDistances) :
       /\ C2_FeasibleStep(suggestRun.suggestedDistances[1], c)
       /\ DistSq(markerPositions[suggestRun.suggestedDistances[1]],
                 markerPositions[suggestRun.suggestedDistances[2]])
            < DistSq(markerPositions[suggestRun.suggestedDistances[1]],
                     markerPositions[c])

----------------------------------------------------------------------------
(* C14 *)

\* C14: with travel profile transit no candidate is feasible in the
\* minTravel walk, so the result of a run with a valid pace on a non-empty
\* pool is the seed, the smallest filtered candidate, alone.
C14_TransitSeedOnly ==
  (MinTravelDone /\ travelProfile = "transit") =>
    /\ FilteredKeys # {}
    /\ suggestRun.suggestedDistances = <<suggestRun.available[1]>>
    /\ \A d \in FilteredKeys : suggestRun.available[1] <= d
    /\ selectedSpots = {suggestRun.available[1]}

\* A transit run asked for several spots that replaced a longer selection by
\* the seed
C14_Witness ==
  /\ MinTravelDone
  /\ travelProfile = "transit"
  /\ suggestRun.numToSelect >= 2
  /\ Cardinality(FilteredKeys) >= 2
  /\ Cardinality(suggestRun.before) >= 2
  /\ Cardinality(selectedSpots) = 1

----------------------------------------------------------------------------
(* C15 *)

\* The straight path from a to b meets the course segment from p to q, which
\* runs along a line of constant lng or of constant lat, in one point more
\* than 10 m from a and from b.  With t = num / den the position of that
\* point along the path, its distances to the ends are t * |ab| and
\* (1 - t) * |ab|; they are compared by their squares.
C15_FarCrossingOn(a, b, p, q) ==
  LET alongLat == p.lng = q.lng /\ p.lat # q.lat
      alongLng == p.lat = q.lat /\ p.lng # q.lng
      \* the coordinate the segment holds fixed, and the one it spans
      fixed(r) == IF alongLat THEN r.lng ELSE r.lat
      span(r) == IF alongLat THEN r.lat ELSE r.lng
      sgn == IF fixed(b) < fixed(a) THEN -1 ELSE 1
      den == sgn * (fixed(b) - fixed(a))
      num == sgn * (fixed(p) - fixed(a))
      lo == Min(span(p), span(q))
      hi == Max(span(p), span(q))
      \* den times the spanned coordinate of the meeting point
      met == span(a) * den + (span(b) - span(a)) * num
      abSq == DistSq(a, b)
  IN  /\ alongLat \/ alongLng
      /\ den > 0
      /\ num >= 0 /\ num <= den
      /\ lo * den <= met /\ met <= hi * den
      /\ num * num * abSq > 100 * den * den
      /\ (den - num) * (den - num) * abSq > 100 * den * den

\* Some segment of the loaded course is met that way
C15_FarCrossing(a, b) ==
  \E k \in 1..(Len(gpxData.points) - 1) :
    C15_FarCrossingOn(a, b, gpxData.points[k], gpxData.points[k + 1])

\* The straight path from a to b runs along the course segment from p to q
\* and shares with it a point more than 10 m from a and from b
C15_FarOverlapOn(a, b, p, q) ==
  LET alongLat == p.lng = q.lng /\ p.lat # q.lat
      alongLng == p.lat = q.lat /\ p.lng # q.lng
      fixed(r) == IF alongLat THEN r.lng ELSE r.lat
      span(r) == IF alongLat THEN r.lat ELSE r.lng
      from == Min(span(a), span(b)) + 10
      to == Max(span(a), span(b)) - 10
  IN  /\ alongLat \/ alongLng
      /\ fixed(a) = fixed(p) /\ fixed(b) = fixed(p)
      /\ from < to
      /\ Min(span(p), span(q)) < to
      /\ from < Max(span(p), span(q))

C15_FarOverlap(a, b) ==
  \E k \in 1..(Len(gpxData.points) - 1) :
    C15_FarOverlapOn(a, b, gpxData.points[k], gpxData.points[k + 1])

----------------------------------------------------------------------------
(* C16 *)

\* C16: after a run that reaches its end, SelectedSpots is exactly the set of
\* returned distances; spots selected before the run that the result does
\* not name are gone.
C16_FullReplace ==
  (SuggestRan /\ suggestRun.outcome \in {"empty", "done"}) =>
    /\ selectedSpots = Range(suggestRun.suggestedDistances)
    /\ (suggestRun.before \ Range(suggestRun.suggestedDistances))
         \cap selectedSpots = {}

\* A run that dropped a spot selected before it and brought a new one
C16_Witness ==
  /\ SuggestDone
  /\ suggestRun.before \ Range(suggestRun.suggestedDistances) # {}
  /\ Range(suggestRun.suggestedDistances) \ suggestRun.before # {}
  /\ selectedSpots = Range(suggestRun.suggestedDistances)

----------------------------------------------------------------------------
(* C17 *)

C17_Clamp(x, lo, hi) == IF x < lo THEN lo ELSE IF x > hi THEN hi ELSE x

\* The point of the segment from p1 to p2 nearest to q, for a segment along a
\* line of constant lat or of constant lng
C17_ClampedProjection(q, p1, p2) ==
  IF p1.lat = p2.lat
  THEN LatLng(p1.lat, C17_Clamp(q.lng, Min(p1.lng, p2.lng), Max(p1.lng, p2.lng)))
  ELSE LatLng(C17_Clamp(q.lat, Min(p1.lat, p2.lat), Max(p1.lat, p2.lat)), p1.lng)

\* The segments of the drawn course that have a length
C17_ProperSegments ==
  {i \in 1..(Len(trailPoints) - 1) : trailPoints[i] # trailPoints[i + 1]}

C17_SegmentDistSq(q, i) ==
  DistSq(q, C17_ClampedProjection(q, trailPoints[i], trailPoints[i + 1]))

\* The result names a segment of the course, a ratio in [0, 1] and the least
\* distance from the query to its clamped projection on a proper segment
C17_NearestOfProperSegments ==
  LET r == trailInfo.nearest
      q == trailInfo.latlng
  IN  /\ r.segmentIndex \in 1..(Len(trailPoints) - 1)
      /\ r.den > 0 /\ 0 <= r.num /\ r.num <= r.den
      /\ r.distanceSq # Infinity
      /\ \E i \in C17_ProperSegments : r.distanceSq = C17_SegmentDistSq(q, i)
      /\ \A i \in C17_ProperSegments : r.distanceSq <= C17_SegmentDistSq(q, i)

\* C17 as stated: for every course with at least 2 points and every query
\* point the result has a segment index in range, a ratio in [0, 1] and a
\* finite distance, the least over the segments that have a length.
C17_NearestAlwaysFinite ==
  trailInfo.asked => C17_NearestOfProperSegments

\* C17, amended: so it is when some segment of the course has a length, and
\* the segment named is then one of those, with the returned point the
\* clamped projection on it; when all points of the course coincide every
\* segment is skipped and the result is the distance Infinity with the first
\* point, segment index 0 and ratio 0.
C17_NearestOnProperSegment ==
  trailInfo.asked =>
    LET r == trailInfo.nearest
        q == trailInfo.latlng
    IN  IF C17_ProperSegments # {}
        THEN /\ C17_NearestOfProperSegments
             /\ r.segmentIndex \in C17_ProperSegments
             /\ r.point = C17_ClampedProjection(q, trailPoints[r.segmentIndex],
                                                trailPoints[r.segmentIndex + 1])
             /\ r.distanceSq = DistSq(q, r.point)
        ELSE /\ r.distanceSq = Infinity
             /\ r.point = trailPoints[1]
             /\ r.segmentIndex = 1
             /\ r.num = 0
             /\ ~trailInfo.shown

\* A query off the course projected into the inside of the second segment
C17_Witness ==
  /\ trailInfo.asked
  /\ Len(trailPoints) = 3
  /\ trailInfo.nearest.segmentIndex = 2
  /\ 0 < trailInfo.nearest.num
  /\ trailInfo.nearest.num < trailInfo.nearest.den
  /\ trailInfo.nearest.distanceSq # Infinity
  /\ trailInfo.nearest.distanceSq > 0

----------------------------------------------------------------------------
(* C18 *)

\* C18: a loaded course with fewer than 2 points leaves the candidate map
\* empty, before and after the map effect, with no spot selected and no
\* course line; the suggestion callback on that state yields the empty
\* selection without a validation failure, under either strategy.  (The
\* sidebar disables its Suggest button while the map is empty, so the
\* callback is evaluated on the state as it stands.)
C18_ShortCourseNoCandidates ==
  (~gpxData.isNull /\ Len(gpxData.points) < 2) =>
    /\ markerPositions = EmptyMap
    /\ selectedSpots = {}
    /\ gpxCourseLine.isNull
    /\ ~SuggestionControlsEnabled
    /\ \A strategy \in SuggestionStrategies :
         LET run == SuggestSpots(markerPositions, numSpotsToSuggest, strategy,
                                 runnerPace, travelProfile, gpxCourseLine,
                                 skipFirstKm)
         IN  run.outcome = "empty" /\ run.suggestedDistances = <<>>

\* A one-point course loaded over a longer one, the map effect done
C18_Witness ==
  /\ ~gpxData.isNull
  /\ Len(gpxData.points) = 1
  /\ ~effectPending
  /\ trailPoints = gpxData.points
  /\ trailCumulativeDistances # <<>>
  /\ markerPositions = EmptyMap

----------------------------------------------------------------------------
(* C19 *)

\* The places of the colons in the pace text
C19_Colons == {i \in 1..Len(runnerPace) : runnerPace[i] = ":"}

\* The text before and after its only colon
C19_Minutes == SubSeq(runnerPace, 1, (CHOOSE i \in C19_Colons : TRUE) - 1)
C19_Seconds ==
  SubSeq(runnerPace, (CHOOSE i \in C19_Colons : TRUE) + 1, Len(runnerPace))

\* A part is numeric when it is a run of digits, with or without a sign
C19_Unsigned(part) == IF part # <<>> /\ Head(part) = "-" THEN Tail(part) ELSE part
C19_IsNumeric(part) ==
  /\ C19_Unsigned(part) # <<>>
  /\ \A i \in 1..Len(C19_Unsigned(part)) : C19_Unsigned(part)[i] \in Digits

RECURSIVE C19_Magnitude(_)
C19_Magnitude(digits) ==
  IF digits = <<>> THEN 0
  ELSE 10 * C19_Magnitude(SubSeq(digits, 1, Len(digits) - 1))
         + DigitValue(digits[Len(digits)])

C19_Number(part) ==
  IF Head(part) = "-" THEN -C19_Magnitude(Tail(part)) ELSE C19_Magnitude(part)

\* C19: parsePaceToSecondsPerMeter returns null for every text that does not
\* have exactly two colon-separated parts, has a non-numeric part, or whose
\* minutes * 60 + seconds is not positive; for every other text it returns
\* (minutes * 60 + seconds) / 1000, which is positive ("5:00" gives 0.3).
C19_NullUnlessTwoNumericParts ==
  LET r == parsePaceToSecondsPerMeter(runnerPace)
      wellFormed == /\ Cardinality(C19_Colons) = 1
                    /\ C19_IsNumeric(C19_Minutes)
                    /\ C19_IsNumeric(C19_Seconds)
      total == C19_Number(C19_Minutes) * 60 + C19_Number(C19_Seconds)
  IN  /\ IF wellFormed /\ total > 0
         THEN ~r.isNull /\ r.secondsPerKm = total
         ELSE r.isNull
      /\ runnerPace = <<"5", ":", "0", "0">> => (~r.isNull /\ r.secondsPerKm = 300)

----------------------------------------------------------------------------
(* C20 *)

\* A candidate 1000 m of course and 1000 m in a straight line from the seed
C20_KilometreAhead(seed, c) ==
  /\ c - seed = 1000
  /\ DistSq(markerPositions[seed], markerPositions[c]) = 1000 * 1000

\* C20: with minTravel, a pace of 0.3 s/m and profile walking, a candidate
\* 1000 m of course and 1000 m in a straight line from the seed is infeasible
\* (300 is not greater than 1000 / 1.4 + 0 + 600), and on the pool of the
\* two the result is the seed only.  The indexer places a candidate every
\* 50 m, so the pair is met inside the pool of a straight course, where no
\* candidate is feasible either, and the walk is also evaluated on the pool
\* of the two alone.
C20_KilometreInfeasible ==
  (/\ MinTravelDone
   /\ parsePaceToSecondsPerMeter(runnerPace).secondsPerKm = 300
   /\ travelProfile = "walking") =>
    LET seed == suggestRun.available[1]
        picked == suggestRun.suggestedDistances
    IN  \A c \in FilteredKeys :
          C20_KilometreAhead(seed, c) =>
            /\ ~(14 * 300 > 10 * 1000 + 14 * (0 + 600))
            /\ ~C2_FeasibleStep(seed, c)
            /\ c \notin Range(picked)
            /\ MinTravel(<< <<seed, markerPositions[seed]>>,
                            <<c, markerPositions[c]>> >>,
                         2, 300, "walking", gpxCourseLine.coords) = <<seed>>
            /\ (\A e \in FilteredKeys :
                  DistSq(markerPositions[seed], markerPositions[e])
                    = (e - seed) * (e - seed))
                 => picked = <<seed>> /\ selectedSpots = {seed}

\* A run at 5:00 per km on foot, asked for several spots on the straight
\* course, that stopped at the seed with a candidate a kilometre ahead
C20_Witness ==
  /\ MinTravelDone
  /\ parsePaceToSecondsPerMeter(runnerPace).secondsPerKm = 300
  /\ travelProfile = "walking"
  /\ suggestRun.numToSelect >= 2
  /\ \E c \in FilteredKeys : C20_KilometreAhead(suggestRun.available[1], c)
  /\ suggestRun.suggestedDistances = <<suggestRun.available[1]>>

----------------------------------------------------------------------------
(* C22 *)

\* C22: once a course of two or more points is indexed, the candidate map has
\* an entry keyed by the total course length whose point is the last point of
\* the course, and every key lies between 0 and the total course length.
C22_FinishEntry ==
  (Indexed /\ Len(CoursePoints) >= 2) =>
    /\ TotalCourseLength \in DOMAIN markerPositions
    /\ markerPositions[TotalCourseLength] = CoursePoints[Len(CoursePoints)]
    /\ \A k \in DOMAIN markerPositions : 0 <= k /\ k <= TotalCourseLength

\* An indexed course whose length is not a multiple of the interval, with
\* interval candidates before the finish entry
C22_Witness ==
  /\ Indexed
  /\ Len(CoursePoints) >= 2
  /\ TotalCourseLength % POTENTIAL_SPOT_INTERVAL # 0
  /\ Cardinality(DOMAIN markerPositions) >= 2
  /\ markerPositions[TotalCourseLength] = CoursePoints[Len(CoursePoints)]
  /\ CoursePoints[Len(CoursePoints)] # CoursePoints[1]

----------------------------------------------------------------------------
(* C23 *)

\* The minTravel callback evaluated on the current inputs
C23_Run ==
  SuggestSpots(markerPositions, numSpotsToSuggest, "minTravel", runnerPace,
               travelProfile, gpxCourseLine, skipFirstKm)

C23_SmallestFiltered == CHOOSE d \in FilteredKeys : \A e \in FilteredKeys : d <= e

\* C23: with a non-empty filtered pool, a valid pace and a requested count of
\* at least 1, the minTravel walk ends with a result; the result starts with
\* the smallest filtered candidate, whatever the travel profile, and holds at
\* least 1 and at most numToSelect = min(numSpotsToSuggest, filteredCount)
\* distances.  A completed run of the handler stored exactly that result.
C23_SeededBoundedWalk ==
  (/\ ~effectPending
   /\ FilteredKeys # {}
   /\ ~parsePaceToSecondsPerMeter(runnerPace).isNull
   /\ numSpotsToSuggest >= 1) =>
    /\ C23_Run.outcome = "done"
    /\ C23_Run.numToSelect = Min(numSpotsToSuggest, Cardinality(FilteredKeys))
    /\ Len(C23_Run.suggestedDistances) >= 1
    /\ Len(C23_Run.suggestedDistances) <= C23_Run.numToSelect
    /\ C23_Run.suggestedDistances[1] = C23_SmallestFiltered
    /\ MinTravelDone => suggestRun.suggestedDistances = C23_Run.suggestedDistances

\* A completed walk that stopped before numToSelect spots were found, after
\* the seed and one feasible spot
C23_Witness ==
  /\ MinTravelDone
  /\ FilteredKeys # {}
  /\ suggestRun.numToSelect = 3
  /\ Len(suggestRun.suggestedDistances) = 2
  /\ suggestRun.suggestedDistances[1] = C23_SmallestFiltered

----------------------------------------------------------------------------
(* C24 *)

\* The positions picked by maxSpread among length candidates for a count of
\* numToSelect >= 2, in the order of the loop
C24_Indices(length, numToSelect) ==
  [i \in 1..numToSelect |-> SpreadIndex(i - 1, length, numToSelect)]

C24_FilteredCount == Cardinality(FilteredKeys)

\* C24: with strategy maxSpread and a non-empty filtered pool the picked
\* positions are strictly increasing, from the first to the last candidate,
\* for every count from 2 up to the pool size; a completed run leaves exactly
\* numToSelect = min(numSpotsToSuggest, filteredCount) spots selected and, for
\* numToSelect >= 2, the first and the last filtered candidate among them.
C24_SpreadDistinct ==
  FilteredKeys # {} =>
    /\ \A k \in 2..Min(MaxSpreadCount, C24_FilteredCount) :
         /\ StrictlyIncreasing(C24_Indices(C24_FilteredCount, k))
         /\ C24_Indices(C24_FilteredCount, k)[1] = 1
         /\ C24_Indices(C24_FilteredCount, k)[k] = C24_FilteredCount
    /\ MaxSpreadDone =>
         /\ suggestRun.numToSelect = Min(numSpotsToSuggest, C24_FilteredCount)
         /\ StrictlyIncreasing(suggestRun.suggestedDistances)
         /\ selectedSpots = Range(suggestRun.suggestedDistances)
         /\ Cardinality(selectedSpots) = suggestRun.numToSelect
         /\ suggestRun.numToSelect >= 2 =>
              /\ \E d \in selectedSpots : \A e \in FilteredKeys : d <= e
              /\ \E d \in selectedSpots : \A e \in FilteredKeys : d >= e

\* A completed run that picked 3 spots out of an even number of candidates, so
\* that the middle index is a rounded half
C24_Witness ==
  /\ MaxSpreadDone
  /\ suggestRun.numToSelect = 3
  /\ C24_FilteredCount % 2 = 0
  /\ C24_FilteredCount >= 4
  /\ Cardinality(selectedSpots) = 3

----------------------------------------------------------------------------
(* C25 *)

\* The course distance from prev to next exceeds seconds / paceSecondsPerMeter
\* metres: (next - prev) * (secondsPerKm / 1000) > seconds, multiplied out
C25_FartherThan(prev, next, seconds) ==
  (next - prev) * parsePaceToSecondsPerMeter(runnerPace).secondsPerKm
    > seconds * 1000

C25_TrulyCrosses(prev, next) ==
  TrueIntersection(gpxCourseLine.coords, markerPositions[prev],
                   markerPositions[next])

\* C25: in a minTravel result two consecutive spots are more than
\* 600 / paceSecondsPerMeter metres apart along the course, and more than
\* 900 / paceSecondsPerMeter when the straight path between them truly crosses
\* the course, under every travel profile.
C25_MinimumGap ==
  MinTravelDone =>
    \A i \in 1..(Len(suggestRun.suggestedDistances) - 1) :
      LET prev == suggestRun.suggestedDistances[i]
          next == suggestRun.suggestedDistances[i + 1]
      IN  /\ C25_FartherThan(prev, next, 600)
          /\ C25_TrulyCrosses(prev, next) => C25_FartherThan(prev, next, 900)

\* A result with a step that truly crosses the course and a step that does not
C25_Witness ==
  /\ MinTravelDone
  /\ \E i, j \in 1..(Len(suggestRun.suggestedDistances) - 1) :
       /\ C25_TrulyCrosses(suggestRun.suggestedDistances[i],
                           suggestRun.suggestedDistances[i + 1])
       /\ ~C25_TrulyCrosses(suggestRun.suggestedDistances[j],
                            suggestRun.suggestedDistances[j + 1])
       /\ C25_FartherThan(suggestRun.suggestedDistances[i],
                          suggestRun.suggestedDistances[i + 1], 900)

----------------------------------------------------------------------------
(* C26 *)

\* The distances a toggle can be called with: the candidates and the spots
C26_Distances == DOMAIN markerPositions \cup selectedSpots

\* What the updater does to the current selection for the distance d: it
\* flips the membership of d, keeps every other element, and undoes itself
C26_FlipsOnly(d) ==
  LET once == ToggledSpots(selectedSpots, d)
  IN  /\ d \in once <=> d \notin selectedSpots
      /\ once \ {d} = selectedSpots \ {d}
      /\ ToggledSpots(once, d) = selectedSpots

\* After a call of handleSpotToggle: the selection is the one found by the
\* call with the membership of the distance flipped
C26_LastToggleFlipped ==
  lastToggle.happened =>
    /\ selectedSpots \ {lastToggle.distance}
         = lastToggle.before \ {lastToggle.distance}
    /\ lastToggle.distance \in selectedSpots
         <=> lastToggle.distance \notin lastToggle.before
    /\ ToggledSpots(selectedSpots, lastToggle.distance) = lastToggle.before

\* C26: handleSpotToggle(d) changes only the membership of d in selectedSpots
\* (d is removed if present and inserted otherwise, every other element and
\* markerPositions stay), and a second call with the same d restores the set.
C26_ToggleFlipsOneSpot ==
  /\ [](C26_LastToggleFlipped /\ \A d \in C26_Distances : C26_FlipsOnly(d))
  /\ [][\A d \in C26_Distances :
          handleSpotToggle(d) =>
            /\ markerPositions' = markerPositions
            /\ selectedSpots' \ {d} = selectedSpots \ {d}
            /\ d \in selectedSpots' <=> d \notin selectedSpots]_vars

\* A spot was removed from a selection of three and the markers were redrawn
C26_Witness ==
  /\ lastToggle.happened
  /\ ~effectPending
  /\ Cardinality(lastToggle.before) = 3
  /\ lastToggle.distance \in lastToggle.before
  /\ Cardinality(selectedSpots) = 2

----------------------------------------------------------------------------
(* C30 *)

C30_Placed == SpotRatios(CoursePoints)

\* The thresholds that fall in segment i: the interval multiples beyond its
\* start and up to its end
C30_ThresholdsIn(i) ==
  {k \in 1..(MetresTo(i + 1) \div POTENTIAL_SPOT_INTERVAL) :
     k * POTENTIAL_SPOT_INTERVAL > MetresTo(i)}

\* C30: every interpolation ratio distanceToSpot / segmentDistance used to
\* place a candidate has a positive divisor and lies in (0, 1]; a zero-length
\* segment places no candidate, a segment places one candidate per threshold
\* it spans, and each lies on that segment, distanceToSpot from its start.
C30_RatiosWithinSegment ==
  (Indexed /\ Len(CoursePoints) >= 2) =>
    /\ \A p \in C30_Placed :
         /\ p.segmentDistance > 0
         /\ p.segmentDistance = SegmentMetres(p.segment)
         /\ 0 < p.distanceToSpot
         /\ p.distanceToSpot <= p.segmentDistance
         /\ p.key \in DOMAIN markerPositions
         /\ OnSegment(markerPositions[p.key], p.segment)
         /\ Abs(markerPositions[p.key].lat - CoursePoints[p.segment].lat)
              + Abs(markerPositions[p.key].lng - CoursePoints[p.segment].lng)
              = p.distanceToSpot
    /\ \A i \in 1..(Len(CoursePoints) - 1) :
         /\ Cardinality({p \in C30_Placed : p.segment = i})
              = Cardinality(C30_ThresholdsIn(i))
         /\ SegmentMetres(i) = 0 => {p \in C30_Placed : p.segment = i} = {}
    /\ DOMAIN markerPositions
         = {p.key : p \in C30_Placed} \cup {TotalCourseLength}

\* An indexed course with a zero-length segment followed by a segment that
\* spans two thresholds
C30_Witness ==
  /\ Indexed
  /\ Len(CoursePoints) >= 2
  /\ \E i \in 1..(Len(CoursePoints) - 1) : SegmentMetres(i) = 0
  /\ \E i \in 1..(Len(CoursePoints) - 1) :
       Cardinality({p \in C30_Placed : p.segment = i}) >= 2

----------------------------------------------------------------------------
(* C29 *)

C29_StartsWith(text, prefix) ==
  /\ Len(text) >= Len(prefix)
  /\ SubSeq(text, 1, Len(prefix)) = prefix

\* C29 as stated: for every selected spot whose marker is drawn, the time
\* text of the sidebar entry and that of the marker tooltip agree: with a pace
\* that parses both read "ETA: <clock time>" when the start time is two
\* digits, a colon, two digits, and both read "Duration: ..." otherwise.
C29_SidebarAgreesWithTooltip ==
  (~effectPending /\ ~parsePaceToSecondsPerMeter(runnerPace).isNull) =>
    \A distance \in selectedSpots :
      LET inSidebar == SidebarEtaString(runnerPace, raceStartTime, distance)
          inTooltip == MarkerEtaString(runnerPace, raceStartTime, distance)
      IN  /\ inSidebar = inTooltip
          /\ MatchesClock(raceStartTime) =>
               /\ C29_StartsWith(inSidebar, EtaPrefix)
               /\ C29_StartsWith(inTooltip, EtaPrefix)
          /\ ~MatchesClock(raceStartTime) =>
               /\ C29_StartsWith(inSidebar, DurationPrefix)
               /\ C29_StartsWith(inTooltip, DurationPrefix)

----------------------------------------------------------------------------
(* Properties of the routing: vocabulary *)

\* The effects of the last event have run
Settled == ~effectPending /\ ~routePending

\* Nothing to route: the profile is transit or there are fewer than 2 waypoints
NothingToRoute == travelProfile = "transit" \/ Len(waypoints) < 2

----------------------------------------------------------------------------
(* C21 *)

\* C21: while the travel profile is transit, or fewer than 2 waypoints exist,
\* a run of the routing effect puts no routing control on the map and sends
\* no request, and segmentTravelTimes is null when it has run; once the
\* effects have run there is no control on the map in such a state.
C21_NoRoutingWithoutRoute ==
  /\ []((Settled /\ NothingToRoute) => routingControl.isNull)
  /\ [][(RoutingEffect /\ NothingToRoute) =>
          /\ routingControl' = NoControl
          /\ routeRequests' = routeRequests
          /\ segmentTravelTimes' = NoTimes]_vars

\* Three spots are selected and the profile is transit; the effect has run and
\* has removed the control that was routing them
C21_Witness ==
  /\ Settled
  /\ travelProfile = "transit"
  /\ Len(waypoints) = 3
  /\ routingControl.isNull
  /\ segmentTravelTimes.isNull
  /\ \E request \in routeRequests : request.waypoints = waypoints

----------------------------------------------------------------------------
(* C27 *)

\* A course has been loaded and its candidates are not computed yet
C27_LoadInProgress ==
  effectPending /\ ~gpxData.isNull /\ markerPositions = EmptyMap

\* C27: every load of a course empties selectedSpots and markerPositions and
\* sets segmentTravelTimes to null; they stay so until the marker effect
\* computes the candidates of the new course, and that effect fills
\* markerPositions from the new course alone and touches neither of the other
\* two, so no selected spot or travel time of the previous course is left by
\* the load.
C27_LoadResets ==
  /\ [](C27_LoadInProgress => (selectedSpots = {} /\ segmentTravelTimes.isNull))
  /\ [][(\E points \in RoutingCourses : handleGpxParsed(points)) =>
          /\ selectedSpots' = {}
          /\ markerPositions' = EmptyMap
          /\ segmentTravelTimes' = NoTimes
          /\ C27_LoadInProgress']_vars
  /\ [][(C27_LoadInProgress /\ MapEffect) =>
          /\ selectedSpots' = {}
          /\ segmentTravelTimes'.isNull
          /\ markerPositions' = PotentialSpots(gpxData.points)]_vars

\* A course has just been loaded over one whose three selected spots were
\* routed and answered: the control of the old course is still on the map
C27_Witness ==
  /\ C27_LoadInProgress
  /\ selectedSpots = {}
  /\ segmentTravelTimes.isNull
  /\ ~routingControl.isNull
  /\ Len(routingControl.waypoints) = 3
  /\ routeRequests = {}
  /\ gpxData.points = OutAndBack

----------------------------------------------------------------------------
(* C28 *)

\* C28 as stated: once the effects of the last event have run, travel times
\* that are stored are the answer to the request for the current waypoints
\* and the current profile, one for each consecutive pair of selected spots.
C28_TimesAnswerCurrentRequest ==
  (Settled /\ ~segmentTravelTimes.isNull) =>
    /\ segmentTravelTimes.legs = LegTimes(RouteRequest(waypoints, travelProfile))
    /\ Len(segmentTravelTimes.legs) = Cardinality(selectedSpots) - 1

============================================================================
